---- MODULE Spec2Model ----
(***************************************************************************)
(* Partial escape analysis and scalar replacement (MVM_spesh_pea) over     *)
(* bounded SSA graphs.  The graph under analysis is drawn instruction by   *)
(* instruction from a small opcode alphabet; analysis (analyze) plans      *)
(* transformations, then MVM_spesh_pea applies them in linear block order. *)
(***************************************************************************)
EXTENDS Integers, Sequences, FiniteSets, TLC

VARIABLES
    family,     \* the family of input graphs this behaviour draws from
    prog,       \* the input graph as given: block -> sequence of instructions
    env,        \* the input's registers (definition site, static type)
    gs,         \* GraphState plus the per-register facts analysis touches
    g,          \* the MVMSpeshGraph being rewritten: code, versions, deopt tables
    phase,      \* "analyze" | "apply" | "done"
    pos,        \* analysis: index into the reverse postorder; apply: into linear order
    tix,        \* apply: index of the next transformation of the block
    ret,        \* what analyze returned (-1 while it runs)
    last,       \* the transformation applied by the latest apply step (0: none)
    cu,         \* the bytecode unpacker: the header of the compilation unit's stream
    rd          \* the bytecode unpacker: reader state, position and what was loaded

vars == <<family, prog, env, gs, g, phase, pos, tix, ret, last, cu, rd>>

\* The pass and the unpacker do not meet: while one runs the other's
\* variables rest at these values.
NoUnit == [data_size |-> 0]
NoReader == [stage |-> "none"]

\* The number of instructions of an input graph.
MaxIns == 4

\* The number of instructions of an input graph that is one call's argument
\* sequence and what leads up to it.
MaxInsArgs == 6

\* The number of instructions of a straight-line graph over one two-int type.
MaxInsScalar == 5
MaxInsGuard == 5

\* The number of instructions of a graph around a branch that compares big
\* integers.
MaxInsRel == 3

\* The number of instructions of a graph with a phi at the join of a branch.
MaxInsPhi == 4
\* Family viv: an allocation, and three of binds and vivifying reads of its
\* reference attribute spread over the blocks of a diamond.
MaxInsViv == 4
\* Family nest: three allocations, two binds chaining them and the escape
\* of the outermost.
MaxInsNest == 6

----------------------------------------------------------------------------
(* Sequence helpers *)

RECURSIVE Repeat(_, _)
Repeat(x, n) == IF n <= 0 THEN <<>> ELSE <<x>> \o Repeat(x, n - 1)

Last(s) == s[Len(s)]
Front(s) == SubSeq(s, 1, Len(s) - 1)
Contains(s, x) == \E k \in 1..Len(s) : s[k] = x
IndexOf(s, x) == CHOOSE k \in 1..Len(s) : s[k] = x
RemoveAt(s, k) == SubSeq(s, 1, k - 1) \o SubSeq(s, k + 1, Len(s))
InsertAt(s, k, x) == SubSeq(s, 1, k - 1) \o <<x>> \o SubSeq(s, k, Len(s))

----------------------------------------------------------------------------
(* Operands, instructions, op info *)

Reg(o, i) == [t |-> "reg", orig |-> o, i |-> i]
Lit(n) == [t |-> "lit", orig |-> n, i |-> 0]
RKey(o) == <<o.orig, o.i>>

\* sizeof(MVMObject): the object header that sp_* offsets include.
sizeof_MVMObject == 24

\* The operand positions (1-based: C operands[k] is position k+1) an opcode
\* reads as registers: (info->operands[i] & MVM_operand_rw_mask) ==
\* MVM_operand_read_reg.
ReadPositions(ins) ==
    CASE ins.op = "sp_fastcreate" -> {}
      [] ins.op = "set" -> {2}
      [] ins.op \in {"sp_bind_i64", "sp_bind_o"} -> {1, 3}
      [] ins.op \in {"sp_get_i64", "sp_get_o"} -> {2}
      [] ins.op \in {"sp_getvt_o", "sp_getvc_o"} -> {2}
      [] ins.op = "bind_lex" -> {2}
      [] ins.op = "arg_o" -> {2}
      [] ins.op = "return_i" -> {1}
      [] ins.op = "add_I" -> {2, 3, 4}
      [] ins.op = "eq_I" -> {2, 3}
      [] ins.op = "PHI" -> 2..Len(ins.operands)
      [] ins.op \in {"sp_guardtype", "sp_guardconc"} -> {2}
      [] OTHER -> {}

may_cause_deopt(ins) == ins.op \in {"sp_guardtype", "sp_guardconc"}

----------------------------------------------------------------------------
(* Types: STables of P6opaque objects with their flattened attribute STables *)

NullST == [repr_id |-> "NULL", boxed_primitive |-> "none", bits |-> 0, is_unsigned |-> FALSE]
BigintST == [repr_id |-> "P6bigint", boxed_primitive |-> "int", bits |-> 0, is_unsigned |-> FALSE]
Int64ST == [repr_id |-> "P6int", boxed_primitive |-> "int", bits |-> 64, is_unsigned |-> FALSE]
Int32ST == [repr_id |-> "P6int", boxed_primitive |-> "int", bits |-> 32, is_unsigned |-> FALSE]
UInt64ST == [repr_id |-> "P6int", boxed_primitive |-> "int", bits |-> 64, is_unsigned |-> TRUE]
Num64ST == [repr_id |-> "P6num", boxed_primitive |-> "num", bits |-> 64, is_unsigned |-> FALSE]
Num32ST == [repr_id |-> "P6num", boxed_primitive |-> "num", bits |-> 32, is_unsigned |-> FALSE]
StrST == [repr_id |-> "P6str", boxed_primitive |-> "str", bits |-> 64, is_unsigned |-> FALSE]
StructST == [repr_id |-> "CStruct", boxed_primitive |-> "none", bits |-> 0, is_unsigned |-> FALSE]

\* The spesh slots of the graph: slot k holds STable SpeshSlots[k].
SpeshSlots ==
    <<"TPair", "TBig", "TPoint", "TMixed", "TNarrow", "TArray", "TBoxed", "TBigSub">>

\* The types try_track_allocation is examined on.
AllTypes ==
    {"TPair", "TBig", "TPoint", "TMixed", "TNarrow", "TArray",
     "TUnsigned", "TNum32", "TStruct", "TEmpty"}

STable(ty) ==
    CASE ty = "TPair" -> [repr_id |-> "P6opaque", flattened_stables |-> <<Int64ST, NullST>>]
      [] ty = "TBig" -> [repr_id |-> "P6opaque", flattened_stables |-> <<BigintST>>]
      [] ty = "TPoint" -> [repr_id |-> "P6opaque", flattened_stables |-> <<Int64ST, Int64ST>>]
      [] ty = "TMixed" ->
            [repr_id |-> "P6opaque",
             flattened_stables |-> <<NullST, StrST, Num64ST, BigintST>>]
      [] ty = "TNarrow" -> [repr_id |-> "P6opaque", flattened_stables |-> <<Int64ST, Int32ST>>]
      [] ty = "TArray" -> [repr_id |-> "VMArray", flattened_stables |-> <<>>]
      [] ty = "TUnsigned" -> [repr_id |-> "P6opaque", flattened_stables |-> <<UInt64ST>>]
      [] ty = "TNum32" -> [repr_id |-> "P6opaque", flattened_stables |-> <<NullST, Num32ST>>]
      [] ty = "TStruct" -> [repr_id |-> "P6opaque", flattened_stables |-> <<StructST, NullST>>]
      [] ty = "TEmpty" -> [repr_id |-> "P6opaque", flattened_stables |-> <<>>]
      [] ty = "TBoxed" -> [repr_id |-> "P6opaque", flattened_stables |-> <<BigintST, NullST>>]
      \* a boxed big integer type that is not registered with the integer cache
      [] ty = "TBigSub" -> [repr_id |-> "P6opaque", flattened_stables |-> <<BigintST>>]

num_attributes(ty) == Len(STable(ty).flattened_stables)

\* repr_data->attribute_offsets[i] (i 1-based here), without the header.
attribute_offsets(ty, i) == 8 * (i - 1)

MVM_p6opaque_offset_to_attr_idx(ty, offset) ==
    CHOOSE i \in 1..num_attributes(ty) : attribute_offsets(ty, i) = offset

\* A version that takes an integer of any width and signedness for int64.
flattened_type_to_register_kind_anyint(st) ==
    IF st.repr_id # "NULL"
    THEN IF st.repr_id = "P6bigint"
         THEN "obi"
         ELSE CASE st.boxed_primitive = "int" -> "int64"
                [] st.boxed_primitive = "num" /\ st.bits = 64 -> "num64"
                [] st.boxed_primitive = "str" -> "str"
                [] OTHER -> "neg"
    ELSE "obj"

flattened_type_to_register_kind(st) ==
    IF st.repr_id # "NULL"
    THEN IF st.repr_id = "P6bigint"
         THEN "obi"
         ELSE CASE st.boxed_primitive = "int" /\ st.bits = 64 /\ ~st.is_unsigned -> "int64"
                [] st.boxed_primitive = "num" /\ st.bits = 64 -> "num64"
                [] st.boxed_primitive = "str" -> "str"
                [] OTHER -> "neg"
    ELSE "obj"

\* MVM_p6opaque_get_bigint_offset: header plus the offset of the big integer
\* attribute, 0 if the type has none.
MVM_p6opaque_get_bigint_offset(ty) ==
    IF \E i \in 1..num_attributes(ty) : STable(ty).flattened_stables[i].repr_id = "P6bigint"
    THEN sizeof_MVMObject + attribute_offsets(ty,
            CHOOSE i \in 1..num_attributes(ty) :
                STable(ty).flattened_stables[i].repr_id = "P6bigint")
    ELSE 0

----------------------------------------------------------------------------
(* Control-flow shapes.  Blocks are 1..nb; pred[b] lists bb->pred in order;  *)
(* rpo is the reverse postorder, linear the linear_next chain from entry.   *)

Shape(name) ==
    CASE name = "line" ->
            [nb |-> 1, pred |-> << <<>> >>, num_succ |-> <<0>>,
             rpo |-> <<1>>, linear |-> <<1>>,
             dom |-> << {1} >>, paths |-> { <<1>> }]
      [] name = "chain" ->
            [nb |-> 2, pred |-> << <<>>, <<1>> >>, num_succ |-> <<1, 0>>,
             rpo |-> <<1, 2>>, linear |-> <<1, 2>>,
             dom |-> << {1}, {1, 2} >>, paths |-> { <<1, 2>> }]
      [] name = "fork" ->
            [nb |-> 3, pred |-> << <<>>, <<1>>, <<1>> >>, num_succ |-> <<2, 0, 0>>,
             rpo |-> <<1, 2, 3>>, linear |-> <<1, 2, 3>>,
             dom |-> << {1}, {1, 2}, {1, 3} >>, paths |-> { <<1, 2>>, <<1, 3>> }]
      [] name = "diamond" ->
            [nb |-> 4, pred |-> << <<>>, <<1>>, <<1>>, <<2, 3>> >>,
             num_succ |-> <<2, 1, 1, 0>>,
             rpo |-> <<1, 2, 3, 4>>, linear |-> <<1, 2, 3, 4>>,
             dom |-> << {1}, {1, 2}, {1, 3}, {1, 4} >>,
             paths |-> { <<1, 2, 4>>, <<1, 3, 4>> }]
      [] name = "swapped" ->
            \* entry jumps forward to block 3, which jumps back to block 2
            [nb |-> 3, pred |-> << <<>>, <<3>>, <<1>> >>, num_succ |-> <<1, 0, 1>>,
             rpo |-> <<1, 3, 2>>, linear |-> <<1, 2, 3>>,
             dom |-> << {1}, {1, 2, 3}, {1, 3} >>, paths |-> { <<1, 3, 2>> }]
      [] name = "backedge" ->
            \* 1 -> 2 -> 3 -> 2
            [nb |-> 3, pred |-> << <<>>, <<1, 3>>, <<2>> >>, num_succ |-> <<1, 1, 2>>,
             rpo |-> <<1, 2, 3>>, linear |-> <<1, 2, 3>>,
             dom |-> << {1}, {1, 2}, {1, 2, 3} >>, paths |-> {}]
      [] name = "selfloop" ->
            \* 1 -> 2 -> 3 -> 3
            [nb |-> 3, pred |-> << <<>>, <<1>>, <<2, 3>> >>, num_succ |-> <<1, 1, 2>>,
             rpo |-> <<1, 2, 3>>, linear |-> <<1, 2, 3>>,
             dom |-> << {1}, {1, 2}, {1, 2, 3} >>, paths |-> {}]

rpo_idx(sh, b) == IndexOf(sh.rpo, b)

----------------------------------------------------------------------------
(* Records.  A pointer to an allocation is its position in                  *)
(* gs.tracked_allocations (C index + 1), 0 for NULL; a pointer to a         *)
(* Transformation is its position in gs.trans; an instruction is named by   *)
(* its id.  Hypothetical register indexes are 0-based as in the source.     *)

\* ktype is the known type ("none" without MVM_SPESH_FACT_KNOWN_TYPE) and
\* concrete the MVM_SPESH_FACT_CONCRETE flag.
ZeroFacts ==
    [allocation |-> 0, depend_allocation |-> 0, ktype |-> "none", concrete |-> FALSE,
     deopt_users |-> {}]

ZeroAllocState == [materializations |-> <<>>, used |-> <<>>, seen |-> FALSE]

ZeroBBState == [alloc_state |-> <<>>, transformations |-> <<>>]

ZeroTran ==
    [transform |-> "NONE", allocation |-> 0, ins |-> 0, target_allocation |-> 0,
     hypothetical_reg_idx |-> 0, hypothetical_reg_idx_a |-> 0,
     hypothetical_reg_idx_b |-> 0, obtain_offset_a |-> 0, obtain_offset_b |-> 0,
     dep_a |-> 0, dep_b |-> 0,
     replace_op |-> "NONE", deopt_point_idx |-> 0, target_reg |-> 0, type_sslot |-> 0,
     prior_to |-> 0, used_bb |-> 0, targets |-> <<>>]

\* MVM_VECTOR_ENSURE_SIZE on a block's alloc_state: new entries are zeroed.
EnsureSize(as, size) ==
    IF Len(as) >= size THEN as ELSE as \o Repeat(ZeroAllocState, size - Len(as))

Alloc(st, a) == st.gs.tracked_allocations[a]

\* MVM_spesh_get_facts
get_facts(st, o) == st.g.facts[RKey(o)]

add_tracked_register(st, reg, alloc) ==
    [st EXCEPT !.gs.tracked_registers = @ \o << [reg |-> reg, allocation |-> alloc] >>]

mark_allocation_seen(st, bb, alloc) ==
    [st EXCEPT !.gs.bb_states[bb].alloc_state =
        [EnsureSize(@, alloc) EXCEPT ![alloc].seen = TRUE]]

add_transform_for_bb(st, bb, tran) ==
    [st EXCEPT !.gs.bb_states[bb].transformations = Append(@, tran)]

\* MVM_spesh_alloc of a Transformation: the new record's pointer is
\* Len(gs.trans) + 1 in the state returned.
new_transformation(st, t) == [st EXCEPT !.gs.trans = Append(@, t)]

\* A transformation is allocated and added to the block's list in one go.
add_new_transform(st, bb, t) ==
    add_transform_for_bb(new_transformation(st, t), bb, Len(st.gs.trans) + 1)

----------------------------------------------------------------------------
(* Shadow facts *)

get_shadow_facts_h_pos(st, idx) ==
    LET hits == {k \in 1..Len(st.gs.shadow_facts) :
                    /\ st.gs.shadow_facts[k].is_hypothetical
                    /\ st.gs.shadow_facts[k].hypothetical_reg_idx = idx}
    IN IF hits = {} THEN 0 ELSE CHOOSE k \in hits : \A m \in hits : k <= m

get_shadow_facts_c_pos(st, o) ==
    LET hits == {k \in 1..Len(st.gs.shadow_facts) :
                    /\ ~st.gs.shadow_facts[k].is_hypothetical
                    /\ st.gs.shadow_facts[k].concrete_orig = o.orig
                    /\ st.gs.shadow_facts[k].concrete_i = o.i}
    IN IF hits = {} THEN 0 ELSE CHOOSE k \in hits : \A m \in hits : k <= m

create_shadow_facts_h(st, idx) ==
    IF get_shadow_facts_h_pos(st, idx) # 0 THEN st
    ELSE [st EXCEPT !.gs.shadow_facts = Append(@,
            [is_hypothetical |-> TRUE, hypothetical_reg_idx |-> idx,
             concrete_orig |-> 0, concrete_i |-> 0, facts |-> ZeroFacts])]

create_shadow_facts_c(st, o) ==
    IF get_shadow_facts_c_pos(st, o) # 0 THEN st
    ELSE [st EXCEPT !.gs.shadow_facts = Append(@,
            [is_hypothetical |-> FALSE, hypothetical_reg_idx |-> 0,
             concrete_orig |-> o.orig, concrete_i |-> o.i, facts |-> ZeroFacts])]

\* MVM_spesh_copy_facts_resolved: copies the flags and the type of the source
\* facts; the pea member belongs to this pass and is not part of the copy.
copy_facts_resolved(tgt, src) ==
    [tgt EXCEPT !.ktype = src.ktype, !.concrete = src.concrete]

----------------------------------------------------------------------------
(* Allocation tracking *)

attribute_offset_to_reg(st, alloc, offset) ==
    Alloc(st, alloc).hypothetical_attr_reg_idxs[
        MVM_p6opaque_offset_to_attr_idx(Alloc(st, alloc).type, offset)]

allocation_tracked(st, bb, alloc) ==
    IF alloc # 0 /\ ~Alloc(st, alloc).irreplaceable
    THEN \/ alloc > Len(st.gs.bb_states[bb].alloc_state)
         \/ Len(st.gs.bb_states[bb].alloc_state[alloc].materializations) = 0
    ELSE FALSE

get_num_attributes(st, alloc) == num_attributes(Alloc(st, alloc).type)

\* The state after get_used_state: the vector is grown and a NULL used
\* array (<<>>) is calloc'ed.
get_used_state(st, bb, alloc) ==
    LET as == EnsureSize(st.gs.bb_states[bb].alloc_state, alloc)
    IN [st EXCEPT !.gs.bb_states[bb].alloc_state =
            IF as[alloc].used = <<>>
            THEN [as EXCEPT ![alloc].used = Repeat(0, get_num_attributes(st, alloc))]
            ELSE as]

mark_attribute_written(st, bb, alloc, offset) ==
    LET idx == MVM_p6opaque_offset_to_attr_idx(Alloc(st, alloc).type, offset)
    IN [get_used_state(st, bb, alloc) EXCEPT
            !.gs.bb_states[bb].alloc_state[alloc].used[idx] = 1]

\* A version that gives every attribute the index the counter stands at.
RECURSIVE track_attributes_same(_, _, _)
track_attributes_same(ty, i, latest) ==
    IF i > num_attributes(ty) THEN [ok |-> TRUE, idxs |-> <<>>, latest |-> latest]
    ELSE IF flattened_type_to_register_kind(STable(ty).flattened_stables[i]) = "neg"
         THEN [ok |-> FALSE, idxs |-> <<>>, latest |-> latest]
         ELSE LET rest == track_attributes_same(ty, i + 1, latest)
              IN [ok |-> rest.ok, idxs |-> <<latest>> \o rest.idxs,
                  latest |-> (latest + 1) % 65536]

\* try_track_allocation's attribute loop: the hypothetical indexes taken
\* before the first attribute of an unhandled kind (all of them if none).
RECURSIVE track_attributes(_, _, _)
track_attributes(ty, i, latest) ==
    IF i > num_attributes(ty) THEN [ok |-> TRUE, idxs |-> <<>>, latest |-> latest]
    ELSE IF flattened_type_to_register_kind(STable(ty).flattened_stables[i]) = "neg"
         THEN [ok |-> FALSE, idxs |-> <<>>, latest |-> latest]
         ELSE LET rest == track_attributes(ty, i + 1, (latest + 1) % 65536)
              IN [ok |-> rest.ok, idxs |-> <<latest>> \o rest.idxs, latest |-> rest.latest]

\* Returns the state; the new allocation (if any) is the last of
\* gs.tracked_allocations, and try_track_allocation_ok tells whether one was made.
try_track_allocation_ok(ty) ==
    /\ STable(ty).repr_id = "P6opaque"
    /\ track_attributes(ty, 1, 0).ok

try_track_allocation(st, alloc_bb, alloc_ins, ty) ==
    IF STable(ty).repr_id = "P6opaque"
    THEN LET tr == track_attributes(ty, 1, st.gs.latest_hypothetical_reg_idx)
             s1 == [st EXCEPT !.gs.latest_hypothetical_reg_idx = tr.latest]
             id == Len(st.gs.tracked_allocations) + 1
             alloc == [index |-> id - 1, type |-> ty, allocator |-> alloc_ins.id,
                       allocator_bb |-> alloc_bb,
                       hypothetical_attr_reg_idxs |-> tr.idxs,
                       bigint |-> \E i \in 1..num_attributes(ty) :
                            flattened_type_to_register_kind(
                                STable(ty).flattened_stables[i]) = "obi",
                       read |-> FALSE, irreplaceable |-> FALSE,
                       escape_dependencies |-> <<>>,
                       has_deopt_materialization_idx |-> FALSE,
                       deopt_materialization_idx |-> 0]
             s2 == [s1 EXCEPT !.gs.tracked_allocations = Append(@, alloc)]
             s3 == add_tracked_register(s2, alloc_ins.operands[1], id)
         IN IF tr.ok THEN mark_allocation_seen(s3, alloc_bb, id) ELSE s1
    ELSE st

----------------------------------------------------------------------------
(* Materialization targets.  t.targets lists the linked list head first.    *)

add_materialization_target_c(st, t, o) ==
    [st EXCEPT !.gs.trans[t].targets =
        << [is_hypothetical |-> FALSE, reg |-> o, hyp_reg |-> 0] >> \o @]

add_materialization_target_h(st, t, hyp_reg) ==
    [st EXCEPT !.gs.trans[t].targets =
        << [is_hypothetical |-> TRUE, reg |-> Reg(0, 0), hyp_reg |-> hyp_reg] >> \o @]

\* A version that adds the register without looking for it in the list.
add_materialization_target_always(st, t, user) == add_materialization_target_c(st, t, user)

add_materialization_target_if_missing(st, t, user) ==
    IF \E k \in 1..Len(st.gs.trans[t].targets) :
            /\ ~st.gs.trans[t].targets[k].is_hypothetical
            /\ st.gs.trans[t].targets[k].reg.orig = user.orig
            /\ st.gs.trans[t].targets[k].reg.i = user.i
    THEN st
    ELSE add_materialization_target_c(st, t, user)

RECURSIVE add_targets_to_all(_, _, _, _)
add_targets_to_all(st, mats, j, user) ==
    IF j > Len(mats) THEN st
    ELSE add_targets_to_all(add_materialization_target_if_missing(st, mats[j], user),
                            mats, j + 1, user)

RECURSIVE handle_materialized_usages_from(_, _, _, _)
handle_materialized_usages_from(st, bb, ins, i) ==
    IF i > Len(ins.operands) THEN st
    ELSE LET user == ins.operands[i]
             alloc == IF i \in ReadPositions(ins) THEN get_facts(st, user).allocation ELSE 0
             s1 == IF /\ alloc # 0
                      /\ ~Alloc(st, alloc).irreplaceable
                      /\ alloc <= Len(st.gs.bb_states[bb].alloc_state)
                   THEN add_targets_to_all(st,
                            st.gs.bb_states[bb].alloc_state[alloc].materializations, 1, user)
                   ELSE st
         IN handle_materialized_usages_from(s1, bb, ins, i + 1)

handle_materialized_usages(st, bb, ins) == handle_materialized_usages_from(st, bb, ins, 1)

----------------------------------------------------------------------------
(* Irreplaceability *)

RECURSIVE mark_irreplaceable(_, _)
RECURSIVE mark_irreplaceable_drain(_, _)

\* The while loop of mark_irreplaceable: pop a dependency, mark it, repeat.
mark_irreplaceable_drain(st, alloc) ==
    LET deps == Alloc(st, alloc).escape_dependencies
    IN IF Len(deps) = 0 THEN st
       ELSE mark_irreplaceable_drain(
                mark_irreplaceable(
                    [st EXCEPT !.gs.tracked_allocations[alloc].escape_dependencies = Front(@)],
                    Last(deps)),
                alloc)

\* A version that sets the flag of the allocation only.
mark_irreplaceable_shallow(st, alloc) ==
    [st EXCEPT !.gs.tracked_allocations[alloc].irreplaceable = TRUE]

mark_irreplaceable(st, alloc) ==
    mark_irreplaceable_drain(
        [st EXCEPT !.gs.tracked_allocations[alloc].irreplaceable = TRUE], alloc)

RECURSIVE in_branch_walk(_, _, _, _, _)
in_branch_walk(sh, base, check, i, branch_depth) ==
    IF i > sh.nb THEN TRUE
    ELSE LET cur == sh.rpo[i]
             d1 == IF cur # base THEN branch_depth - (Len(sh.pred[cur]) - 1)
                   ELSE branch_depth
         IN IF cur = check THEN d1 # 0
            ELSE in_branch_walk(sh, base, check, i + 1, d1 + (sh.num_succ[cur] - 1))

\* A version that supposes a branch everywhere.
in_branch_always(sh, base, check) == TRUE

in_branch(sh, base, check) == in_branch_walk(sh, base, check, rpo_idx(sh, base), 0)

\* A version that finds every materialization worth it.
worth_materializing_always(st, sh, bb, alloc) == TRUE

worth_materializing(st, sh, bb, alloc) ==
    \/ Alloc(st, alloc).read
    \/ Alloc(st, alloc).bigint
    \/ in_branch(sh, Alloc(st, alloc).allocator_bb, bb)

\* Creates a MATERIALIZE transformation of alloc before prior_ins with the
\* given first target and records it in the block's allocation state; the
\* transformation is not yet on the block's transformation list.
new_materialization(st, bb, prior_ins, alloc, target) ==
    LET s1 == get_used_state(st, bb, alloc)
        s2 == new_transformation(s1,
                [ZeroTran EXCEPT !.allocation = alloc, !.transform = "MATERIALIZE",
                                 !.prior_to = prior_ins, !.used_bb = bb,
                                 !.targets = <<target>>])
        t == Len(s2.gs.trans)
    IN [s2 EXCEPT !.gs.bb_states[bb].alloc_state =
            [EnsureSize(@, alloc) EXCEPT ![alloc].materializations = Append(@, t)]]

RECURSIVE materialize_attributes_from(_, _, _, _, _)
materialize_attributes_from(st, bb, prior_ins, obj_alloc, i) ==
    IF i > get_num_attributes(st, obj_alloc) THEN st
    ELSE LET hypothetical_reg == Alloc(st, obj_alloc).hypothetical_attr_reg_idxs[i]
             sfp == get_shadow_facts_h_pos(st, hypothetical_reg)
             attr_alloc == IF sfp = 0 THEN 0 ELSE st.gs.shadow_facts[sfp].facts.allocation
         IN IF sfp # 0 /\ allocation_tracked(st, bb, attr_alloc)
            THEN LET s1 == new_materialization(st, bb, prior_ins, attr_alloc,
                                [is_hypothetical |-> TRUE, reg |-> Reg(0, 0),
                                 hyp_reg |-> hypothetical_reg])
                     tran == Len(s1.gs.trans)
                     s2 == materialize_attributes_from(s1, bb, prior_ins, attr_alloc, 1)
                     s3 == add_transform_for_bb(s2, bb, tran)
                 IN materialize_attributes_from(s3, bb, prior_ins, obj_alloc, i + 1)
            ELSE materialize_attributes_from(st, bb, prior_ins, obj_alloc, i + 1)

\* A version that leaves the objects the attributes refer to alone.
materialize_attributes_none(st, bb, prior_ins, obj_alloc) == st

materialize_attributes(st, bb, prior_ins, obj_alloc) ==
    materialize_attributes_from(st, bb, prior_ins, obj_alloc, 1)

real_object_required(st, sh, bb, ins, o, can_materialize) ==
    LET alloc == get_facts(st, o).allocation
    IN IF allocation_tracked(st, bb, alloc)
       THEN IF can_materialize /\ worth_materializing(st, sh, bb, alloc)
            THEN LET s1 == new_materialization(st, bb, ins.id, alloc,
                                [is_hypothetical |-> FALSE, reg |-> o, hyp_reg |-> 0])
                     tran == Len(s1.gs.trans)
                     s2 == materialize_attributes(s1, bb, ins.id, alloc)
                 IN add_transform_for_bb(s2, bb, tran)
            ELSE mark_irreplaceable(st, alloc)
       ELSE st

RECURSIVE unhandled_instruction_from(_, _, _, _, _)
unhandled_instruction_from(st, sh, bb, ins, i) ==
    IF i > Len(ins.operands) THEN st
    ELSE unhandled_instruction_from(
            IF i \in ReadPositions(ins)
            THEN real_object_required(st, sh, bb, ins, ins.operands[i], TRUE)
            ELSE st,
            sh, bb, ins, i + 1)

unhandled_instruction(st, sh, bb, ins) == unhandled_instruction_from(st, sh, bb, ins, 1)

----------------------------------------------------------------------------
(* Big integer decomposition *)

find_bigint_register(st, alloc) ==
    Alloc(st, alloc).hypothetical_attr_reg_idxs[
        CHOOSE i \in 1..get_num_attributes(st, alloc) :
            /\ flattened_type_to_register_kind(
                    STable(Alloc(st, alloc).type).flattened_stables[i]) = "obi"
            /\ \A k \in 1..(i - 1) :
                    flattened_type_to_register_kind(
                        STable(Alloc(st, alloc).type).flattened_stables[k]) # "obi"]

\* from and to are operand positions (C operand index + 1).
are_types_known(st, ins, from, to) ==
    \A i \in from..to :
        /\ get_facts(st, ins.operands[i]).ktype # "none"
        /\ STable(get_facts(st, ins.operands[i]).ktype).repr_id = "P6opaque"
        /\ MVM_p6opaque_get_bigint_offset(get_facts(st, ins.operands[i]).ktype) # 0

\* A version that reads every operand out of its box, tracked or not.
decompose_operand_loaded(st, bb, alloc, tran, o, which) ==
    [st |-> [st EXCEPT !.gs.latest_hypothetical_reg_idx = (@ + 1) % 65536],
     tran |-> IF which = "a"
              THEN [tran EXCEPT
                        !.hypothetical_reg_idx_a = st.gs.latest_hypothetical_reg_idx,
                        !.obtain_offset_a =
                            MVM_p6opaque_get_bigint_offset(get_facts(st, o).ktype)]
              ELSE [tran EXCEPT
                        !.hypothetical_reg_idx_b = st.gs.latest_hypothetical_reg_idx,
                        !.obtain_offset_b =
                            MVM_p6opaque_get_bigint_offset(get_facts(st, o).ktype)]]

\* One incoming operand of a decomposition: the state and the transformation
\* record after deciding between the operand's hypothetical register and a
\* read out of the object.  which is "a" or "b".
decompose_operand(st, bb, alloc, tran, o, which) ==
    LET o_facts == get_facts(st, o)
        o_alloc == o_facts.allocation
    IN IF allocation_tracked(st, bb, o_alloc)
       THEN [st |-> [st EXCEPT
                        !.gs.tracked_allocations[alloc].escape_dependencies =
                            Append(@, o_alloc),
                        !.gs.tracked_allocations[o_alloc].read = TRUE],
             tran |-> IF which = "a"
                      THEN [tran EXCEPT !.hypothetical_reg_idx_a =
                                            find_bigint_register(st, o_alloc)]
                      ELSE [tran EXCEPT !.hypothetical_reg_idx_b =
                                            find_bigint_register(st, o_alloc)]]
       ELSE [st |-> [st EXCEPT !.gs.latest_hypothetical_reg_idx = (@ + 1) % 65536],
             tran |-> IF which = "a"
                      THEN [tran EXCEPT
                                !.hypothetical_reg_idx_a = st.gs.latest_hypothetical_reg_idx,
                                !.obtain_offset_a =
                                    MVM_p6opaque_get_bigint_offset(o_facts.ktype)]
                      ELSE [tran EXCEPT
                                !.hypothetical_reg_idx_b = st.gs.latest_hypothetical_reg_idx,
                                !.obtain_offset_b =
                                    MVM_p6opaque_get_bigint_offset(o_facts.ktype)]]

\* The two incoming operands of a binary decomposition, a then b, starting
\* from the transformation record of the new allocation alloc.
decompose_operand_b(ra, bb, alloc, ins) ==
    decompose_operand(ra.st, bb, alloc, ra.tran, ins.operands[3], "b")

decompose_operands_bi(st, bb, ins, alloc, replace_op) ==
    decompose_operand_b(
        decompose_operand(st, bb, alloc,
            [ZeroTran EXCEPT !.allocation = alloc,
                             !.transform = "DECOMPOSE_BIGINT_BI",
                             !.ins = ins.id, !.replace_op = replace_op],
            ins.operands[2], "a"),
        bb, alloc, ins)

\* The transformation is planned, the result register is tied to the new
\* allocation and its big integer attribute counts as written.
track_decomposed(r, bb, ins, alloc, ty) ==
    mark_attribute_written(
        [add_transform_for_bb(new_transformation(r.st, r.tran), bb,
                              Len(r.st.gs.trans) + 1)
            EXCEPT !.g.facts[RKey(ins.operands[1])].allocation = alloc],
        bb, alloc, MVM_p6opaque_get_bigint_offset(ty) - sizeof_MVMObject)

\* What follows try_track_allocation, whose state is st.
decompose_tracked_bi(st, sh, bb, ins, replace_op, ty) ==
    IF try_track_allocation_ok(ty)
    THEN [track_decomposed(
              decompose_operands_bi(st, bb, ins, Len(st.gs.tracked_allocations),
                                    replace_op),
              bb, ins, Len(st.gs.tracked_allocations), ty)
            EXCEPT !.gs.found_replaceable = TRUE]
    ELSE unhandled_instruction(st, sh, bb, ins)

\* The state after decompose_and_track_bigint_bi; found_replaceable is set
\* when the function returns 1.
decompose_and_track_bigint_bi(st, sh, bb, ins, replace_op) ==
    IF ~are_types_known(st, ins, 2, 4)
    THEN unhandled_instruction(st, sh, bb, ins)
    ELSE decompose_tracked_bi(
             try_track_allocation(st, bb, ins, get_facts(st, ins.operands[4]).ktype),
             sh, bb, ins, replace_op, get_facts(st, ins.operands[4]).ktype)

\* One incoming operand of a relational decomposition: the hypothetical
\* register and the allocation it depends on if the operand is tracked, a
\* new hypothetical register if not, and the offset to read from in both
\* cases.  which is "a" or "b".
relational_operand(st, bb, tran, o, which) ==
    LET o_facts == get_facts(st, o)
        o_alloc == o_facts.allocation
        offset == MVM_p6opaque_get_bigint_offset(o_facts.ktype)
    IN IF allocation_tracked(st, bb, o_alloc)
       THEN [st |-> [st EXCEPT !.gs.tracked_allocations[o_alloc].read = TRUE],
             tran |-> IF which = "a"
                      THEN [tran EXCEPT !.hypothetical_reg_idx_a =
                                            find_bigint_register(st, o_alloc),
                                        !.dep_a = o_alloc,
                                        !.obtain_offset_a = offset]
                      ELSE [tran EXCEPT !.hypothetical_reg_idx_b =
                                            find_bigint_register(st, o_alloc),
                                        !.dep_b = o_alloc,
                                        !.obtain_offset_b = offset]]
       ELSE [st |-> [st EXCEPT !.gs.latest_hypothetical_reg_idx = (@ + 1) % 65536],
             tran |-> IF which = "a"
                      THEN [tran EXCEPT
                                !.hypothetical_reg_idx_a = st.gs.latest_hypothetical_reg_idx,
                                !.obtain_offset_a = offset]
                      ELSE [tran EXCEPT
                                !.hypothetical_reg_idx_b = st.gs.latest_hypothetical_reg_idx,
                                !.obtain_offset_b = offset]]

relational_operand_b(ra, bb, ins) ==
    relational_operand(ra.st, bb, ra.tran, ins.operands[3], "b")

\* The transformation record is complete: it is added to the block's list.
plan_relational(r, bb) == add_new_transform(r.st, bb, r.tran)

\* The state after decompose_bigint_relational; found_replaceable is set
\* when the function returns 1.  The transformation belongs to no allocation.
decompose_bigint_relational(st, sh, bb, ins, replace_op) ==
    IF are_types_known(st, ins, 2, 3)
    THEN [plan_relational(
              relational_operand_b(
                  relational_operand(st, bb,
                      [ZeroTran EXCEPT !.transform = "DECOMPOSE_BIGINT_REL",
                                       !.ins = ins.id, !.replace_op = replace_op],
                      ins.operands[2], "a"),
                  bb, ins),
              bb)
            EXCEPT !.gs.found_replaceable = TRUE]
    ELSE unhandled_instruction(st, sh, bb, ins)

----------------------------------------------------------------------------
(* Deopt materializations *)

RECURSIVE add_scalar_replacement_deopt_usages(_, _, _, _, _)
add_scalar_replacement_deopt_usages(st, bb, alloc, deopt_idx, i) ==
    IF i > get_num_attributes(st, alloc) THEN st
    ELSE LET s1 == new_transformation(st,
                    [ZeroTran EXCEPT !.allocation = alloc,
                                     !.transform = "ADD_DEOPT_USAGE",
                                     !.deopt_point_idx = deopt_idx,
                                     !.hypothetical_reg_idx =
                                        Alloc(st, alloc).hypothetical_attr_reg_idxs[i]])
         IN add_scalar_replacement_deopt_usages(
                add_transform_for_bb(s1, bb, Len(s1.gs.trans)), bb, alloc, deopt_idx, i + 1)

\* The deopt users of a register form a set here: an index is listed at
\* most once per register, so the inner while loop fires at most once.
RECURSIVE add_deopt_materializations_idx_from(_, _, _, _, _)
add_deopt_materializations_idx_from(st, bb, deopt_idx, deopt_user_idx, i) ==
    IF i > Len(st.gs.tracked_registers) THEN st
    ELSE LET tr == st.gs.tracked_registers[i]
             tracked_facts == get_facts(st, tr.reg)
             alloc == tracked_facts.allocation
         IN IF allocation_tracked(st, bb, alloc) /\ deopt_user_idx \in tracked_facts.deopt_users
            THEN LET s2 == add_new_transform(st, bb,
                            [ZeroTran EXCEPT !.allocation = alloc,
                                             !.transform = "ADD_DEOPT_POINT",
                                             !.deopt_point_idx = deopt_idx,
                                             !.target_reg = tr.reg.orig])
                     s3 == add_scalar_replacement_deopt_usages(s2, bb, alloc,
                                deopt_user_idx, 1)
                 IN add_deopt_materializations_idx_from(s3, bb, deopt_idx,
                        deopt_user_idx, i + 1)
            ELSE add_deopt_materializations_idx_from(st, bb, deopt_idx,
                        deopt_user_idx, i + 1)

add_deopt_materializations_idx(st, bb, deopt_idx, deopt_user_idx) ==
    add_deopt_materializations_idx_from(st, bb, deopt_idx, deopt_user_idx, 1)

\* A version that plans the deopt points under the index it looks the
\* deopt users up with.
add_deopt_materializations_ins_lookup(st, bb, deopt_ins) ==
    LET deopt_user_idx == deopt_ins.ann_synth
    IN IF deopt_ins.ann_deopt >= 0
       THEN LET idx == IF deopt_user_idx >= 0 THEN deopt_user_idx ELSE deopt_ins.ann_deopt
            IN add_deopt_materializations_idx(st, bb, idx, idx)
       ELSE st

\* An instruction carries at most one annotation of the types DEOPT_ONE_INS,
\* DEOPT_ALL_INS and DEOPT_INLINE (ann_deopt, -1 if none) and at most one
\* DEOPT_SYNTH annotation (ann_synth, -1 if none).
add_deopt_materializations_ins(st, bb, deopt_ins) ==
    LET deopt_user_idx == deopt_ins.ann_synth
    IN IF deopt_ins.ann_deopt >= 0
       THEN add_deopt_materializations_idx(st, bb, deopt_ins.ann_deopt,
                IF deopt_user_idx >= 0 THEN deopt_user_idx ELSE deopt_ins.ann_deopt)
       ELSE st

----------------------------------------------------------------------------
(* Per-block allocation state at block entry *)

\* The predecessors of new_bb, in pred order, in which allocation i was seen.
applicable_bbs(st, sh, new_bb, i) ==
    SelectSeq(sh.pred[new_bb],
              LAMBDA p : /\ i <= Len(st.gs.bb_states[p].alloc_state)
                         /\ st.gs.bb_states[p].alloc_state[i].seen)

\* A version that takes the count of the first predecessor for each of them.
sum_pred_used_first(st, bbs, i, k) ==
    IF bbs = <<>> THEN 0
    ELSE LET pred_used == st.gs.bb_states[Head(bbs)].alloc_state[i].used
         IN ((IF pred_used # <<>> THEN pred_used[k] ELSE 0) * Len(bbs)) % 256

RECURSIVE sum_pred_used(_, _, _, _)
sum_pred_used(st, bbs, i, k) ==
    IF bbs = <<>> THEN 0
    ELSE LET pred_used == st.gs.bb_states[Head(bbs)].alloc_state[i].used
         IN ((IF pred_used # <<>> THEN pred_used[k] ELSE 0)
                + sum_pred_used(st, Tail(bbs), i, k)) % 256

\* A version that pushes every materialization, seen before or not.
distinct_append_all(acc, ts) == acc \o ts

RECURSIVE distinct_append(_, _)
distinct_append(acc, ts) ==
    IF ts = <<>> THEN acc
    ELSE distinct_append(IF Contains(acc, Head(ts)) THEN acc ELSE Append(acc, Head(ts)),
                         Tail(ts))

RECURSIVE distinct_materializations(_, _, _)
distinct_materializations(st, bbs, i) ==
    IF bbs = <<>> THEN <<>>
    ELSE distinct_append(distinct_materializations(st, Front(bbs), i),
                         st.gs.bb_states[Last(bbs)].alloc_state[i].materializations)

\* A version that accepts any number of writers.
used_consistent_any(new_used_j, num_applicable) == TRUE

\* The write count of one attribute agrees with the predecessors: nobody
\* wrote it, or every applicable predecessor did.
used_consistent(new_used_j, num_applicable) ==
    new_used_j = 0 \/ new_used_j = num_applicable

\* A version that recomputes the irreplaceable flag from the outcome of the
\* merge instead of only ever setting it.
setup_alloc_state_recompute(st, sh, new_bb, i) ==
    LET bbs == applicable_bbs(st, sh, new_bb, i)
        num_attrs == get_num_attributes(st, i)
        new_used == [k \in 1..num_attrs |-> sum_pred_used(st, bbs, i, k)]
        num_materialized ==
            Cardinality({j \in 1..Len(bbs) :
                Len(st.gs.bb_states[bbs[j]].alloc_state[i].materializations) > 0})
        consistent == \A j \in 1..num_attrs : used_consistent(new_used[j], Len(bbs))
        agreed == consistent /\ ~(num_materialized > 0 /\ num_materialized # Len(bbs))
        s1 == [st EXCEPT !.gs.bb_states[new_bb].alloc_state[i].seen = (Len(bbs) > 0),
                         !.gs.tracked_allocations[i].irreplaceable = ~agreed]
    IN IF ~consistent THEN s1
       ELSE [s1 EXCEPT
                !.gs.bb_states[new_bb].alloc_state[i].materializations =
                    distinct_materializations(st, bbs, i),
                !.gs.bb_states[new_bb].alloc_state[i].used =
                    [k \in 1..num_attrs |-> IF new_used[k] # 0 THEN 1 ELSE 0]]

setup_alloc_state(st, sh, new_bb, i) ==
    LET bbs == applicable_bbs(st, sh, new_bb, i)
        num_attrs == get_num_attributes(st, i)
        new_used == [k \in 1..num_attrs |-> sum_pred_used(st, bbs, i, k)]
        num_materialized ==
            Cardinality({j \in 1..Len(bbs) :
                Len(st.gs.bb_states[bbs[j]].alloc_state[i].materializations) > 0})
        s1 == [st EXCEPT !.gs.bb_states[new_bb].alloc_state[i].seen = (Len(bbs) > 0)]
        consistent == \A j \in 1..num_attrs : used_consistent(new_used[j], Len(bbs))
        s2 == [s1 EXCEPT
                !.gs.bb_states[new_bb].alloc_state[i].materializations =
                    distinct_materializations(st, bbs, i),
                !.gs.bb_states[new_bb].alloc_state[i].used =
                    [k \in 1..num_attrs |-> IF new_used[k] # 0 THEN 1 ELSE 0]]
    IN IF ~consistent THEN mark_irreplaceable(s1, i)
       ELSE IF num_materialized > 0 /\ num_materialized # Len(bbs)
            THEN mark_irreplaceable(s2, i)
            ELSE s2

RECURSIVE setup_bb_state_from(_, _, _, _)
setup_bb_state_from(st, sh, new_bb, i) ==
    IF i > Len(st.gs.tracked_allocations) THEN st
    ELSE setup_bb_state_from(setup_alloc_state(st, sh, new_bb, i), sh, new_bb, i + 1)

setup_bb_state(st, sh, new_bb) ==
    setup_bb_state_from(
        [st EXCEPT !.gs.bb_states[new_bb].alloc_state =
            Repeat(ZeroAllocState, Len(st.gs.tracked_allocations))],
        sh, new_bb, 1)

----------------------------------------------------------------------------
(* Instruction handlers of analyze *)

add_object_read_transform(st, bb, ins, alloc) ==
    LET is_object_get == ins.op \in {"sp_get_o", "sp_getvc_o", "sp_getvt_o"}
        offset == ins.operands[3].orig - sizeof_MVMObject
        hypothetical_reg == attribute_offset_to_reg(st, alloc, offset)
        t0 == [ZeroTran EXCEPT !.allocation = alloc, !.transform = "GETATTR_TO_SET",
                               !.ins = ins.id, !.hypothetical_reg_idx = hypothetical_reg]
        srcp == get_shadow_facts_h_pos(st, hypothetical_reg)
        s1 == IF is_object_get /\ srcp # 0
              THEN LET c1 == create_shadow_facts_c(st, ins.operands[1])
                       tgtp == get_shadow_facts_c_pos(c1, ins.operands[1])
                   IN [c1 EXCEPT !.gs.shadow_facts[tgtp].facts =
                            [copy_facts_resolved(@, c1.gs.shadow_facts[srcp].facts)
                                EXCEPT !.depend_allocation = alloc]]
              ELSE st
        src_alloc == IF is_object_get /\ srcp # 0
                     THEN st.gs.shadow_facts[srcp].facts.allocation ELSE 0
        aliases == allocation_tracked(s1, bb, src_alloc)
        s2 == IF aliases
              THEN add_tracked_register(
                      [s1 EXCEPT !.g.facts[RKey(ins.operands[1])].allocation = src_alloc],
                      ins.operands[1], src_alloc)
              ELSE s1
        s4 == add_new_transform(s2, bb,
                IF aliases THEN [t0 EXCEPT !.target_allocation = src_alloc] ELSE t0)
    IN [s4 EXCEPT !.gs.tracked_allocations[alloc].read = TRUE]

\* A version that drops the allocating instruction as soon as the allocation
\* is tracked instead of planning its deletion.
analyze_fastcreate_eager(st, bb, ins) ==
    LET ty == SpeshSlots[ins.operands[3].orig]
        s1 == try_track_allocation(st, bb, ins, ty)
        alloc == Len(s1.gs.tracked_allocations)
    IN IF try_track_allocation_ok(ty)
       THEN [s1 EXCEPT !.g.facts[RKey(ins.operands[1])].allocation = alloc,
                       !.gs.found_replaceable = TRUE,
                       !.g.code[bb] = SelectSeq(@, LAMBDA i : i.id # ins.id)]
       ELSE s1

analyze_fastcreate(st, bb, ins) ==
    LET ty == SpeshSlots[ins.operands[3].orig]
        s1 == try_track_allocation(st, bb, ins, ty)
        alloc == Len(s1.gs.tracked_allocations)
        s3 == add_new_transform(s1, bb,
                [ZeroTran EXCEPT !.allocation = alloc, !.transform = "DELETE_FASTCREATE",
                                 !.ins = ins.id])
    IN IF try_track_allocation_ok(ty)
       THEN [s3 EXCEPT !.g.facts[RKey(ins.operands[1])].allocation = alloc,
                       !.gs.found_replaceable = TRUE]
       ELSE s1

analyze_set(st, bb, ins) ==
    LET source == get_facts(st, ins.operands[2])
        alloc == source.allocation
    IN IF allocation_tracked(st, bb, alloc)
       THEN LET s2 == add_new_transform(st, bb,
                        [ZeroTran EXCEPT !.allocation = alloc, !.transform = "DELETE_SET",
                                         !.ins = ins.id])
                s3 == [s2 EXCEPT !.g.facts[RKey(ins.operands[1])].allocation = alloc]
                s4 == add_tracked_register(s3, ins.operands[1], alloc)
            IN [s4 EXCEPT !.g.facts[RKey(ins.operands[1])] = copy_facts_resolved(@, source)]
       ELSE st

\* A version that leaves the source of a bind into an escaped object alone.
analyze_bind_escaped_ignored(st, sh, bb, ins) == st

\* The target of the bind escapes; an object bound into it escapes with it.
analyze_bind_escaped(st, sh, bb, ins) ==
    IF ins.op = "sp_bind_o"
    THEN real_object_required(st, sh, bb, ins, ins.operands[3], TRUE)
    ELSE st

analyze_bind(st, sh, bb, ins) ==
    LET alloc == get_facts(st, ins.operands[1]).allocation
        is_object_bind == ins.op = "sp_bind_o"
    IN IF allocation_tracked(st, bb, alloc)
       THEN LET offset == ins.operands[2].orig - sizeof_MVMObject
                hypothetical_reg == attribute_offset_to_reg(st, alloc, offset)
                t0 == [ZeroTran EXCEPT !.allocation = alloc,
                                       !.transform = "BINDATTR_TO_SET",
                                       !.ins = ins.id,
                                       !.hypothetical_reg_idx = hypothetical_reg]
                src_facts == get_facts(st, ins.operands[3])
                src_alloc == src_facts.allocation
                nested == is_object_bind /\ allocation_tracked(st, bb, src_alloc)
                s1 == IF is_object_bind
                      THEN LET c1 == create_shadow_facts_h(st, hypothetical_reg)
                               tgtp == get_shadow_facts_h_pos(c1, hypothetical_reg)
                           IN [c1 EXCEPT !.gs.shadow_facts[tgtp].facts =
                                    IF nested
                                    THEN [copy_facts_resolved(@, src_facts)
                                            EXCEPT !.allocation = src_alloc]
                                    ELSE copy_facts_resolved(@, src_facts)]
                      ELSE st
                s2 == IF nested
                      THEN [s1 EXCEPT !.gs.tracked_allocations[alloc].escape_dependencies =
                                Append(@, src_alloc)]
                      ELSE s1
                s4 == add_new_transform(s2, bb,
                        IF nested THEN [t0 EXCEPT !.target_allocation = src_alloc] ELSE t0)
            IN mark_attribute_written(s4, bb, alloc, offset)
       ELSE analyze_bind_escaped(st, sh, bb, ins)

\* A version that leaves attribute reads alone.
analyze_get_ignored(st, bb, ins) == st

analyze_get(st, bb, ins) ==
    LET alloc == get_facts(st, ins.operands[2]).allocation
    IN IF allocation_tracked(st, bb, alloc)
       THEN add_object_read_transform(st, bb, ins, alloc)
       ELSE st

\* was_attribute_written: the flag of the attribute in the block's used
\* array, which get_used_state allocates when the block has none.
was_attribute_written(st, bb, alloc, offset) ==
    get_used_state(st, bb, alloc).gs.bb_states[bb].alloc_state[alloc].used[
        MVM_p6opaque_offset_to_attr_idx(Alloc(st, alloc).type, offset)] # 0

\* A version that plans the vivification and leaves the written flag alone.
add_object_autoviv_transform_unmarked(st, bb, ins, alloc, offset) ==
    LET is_concrete_viv == ins.op = "sp_getvc_o"
    IN [add_new_transform(st, bb,
            [ZeroTran EXCEPT
                !.allocation = alloc,
                !.transform = IF is_concrete_viv THEN "VIVIFY_CONCRETE" ELSE "VIVIFY_TYPE",
                !.ins = ins.id,
                !.hypothetical_reg_idx = attribute_offset_to_reg(st, alloc, offset),
                !.type_sslot = ins.operands[4].orig])
        EXCEPT !.gs.tracked_allocations[alloc].read = TRUE]

add_object_autoviv_transform(st, bb, ins, alloc, offset) ==
    LET is_concrete_viv == ins.op = "sp_getvc_o"
        s1 == add_new_transform(st, bb,
                [ZeroTran EXCEPT
                    !.allocation = alloc,
                    !.transform = IF is_concrete_viv THEN "VIVIFY_CONCRETE"
                                  ELSE "VIVIFY_TYPE",
                    !.ins = ins.id,
                    !.hypothetical_reg_idx = attribute_offset_to_reg(st, alloc, offset),
                    !.type_sslot = ins.operands[4].orig])
    IN [mark_attribute_written(s1, bb, alloc, offset)
            EXCEPT !.gs.tracked_allocations[alloc].read = TRUE]

\* The vivifying reads sp_getvc_o and sp_getvt_o.
analyze_vivify(st, bb, ins) ==
    LET alloc == get_facts(st, ins.operands[2]).allocation
        offset == ins.operands[3].orig - sizeof_MVMObject
        s1 == get_used_state(st, bb, alloc)
    IN IF allocation_tracked(st, bb, alloc)
       THEN IF was_attribute_written(st, bb, alloc, offset)
            THEN add_object_read_transform(s1, bb, ins, alloc)
            ELSE add_object_autoviv_transform(s1, bb, ins, alloc, offset)
       ELSE st

\* A version that leaves the inputs of a phi alone.
phi_inputs_ignored(st, sh, bb, ins, i) == st

RECURSIVE phi_inputs_required(_, _, _, _, _)
phi_inputs_required(st, sh, bb, ins, i) ==
    IF i > Len(ins.operands) THEN st
    ELSE phi_inputs_required(
            real_object_required(st, sh, bb, ins, ins.operands[i], FALSE),
            sh, bb, ins, i + 1)

\* num_operands counts the output: a PHI with one input has two operands.
analyze_phi(st, sh, bb, ins) ==
    IF Len(ins.operands) = 2
    THEN LET source == get_facts(st, ins.operands[2])
             alloc == source.allocation
         IN IF allocation_tracked(st, bb, alloc)
            THEN [st EXCEPT !.g.facts[RKey(ins.operands[1])] =
                    copy_facts_resolved([@ EXCEPT !.allocation = alloc], source)]
            ELSE st
    ELSE phi_inputs_required(st, sh, bb, ins, 2)

\* The guard elimination test at the head of analyze's instruction loop:
\* whether the shadow facts of the guarded register prove the guard, the
\* allocation those facts depend on, and the tracked allocation guarded.
guard_elimination(st, bb, ins) ==
    LET hp == IF ins.op = "sp_guardconc"
              THEN get_shadow_facts_c_pos(st, ins.operands[2]) ELSE 0
        hyp_facts == IF hp = 0 THEN ZeroFacts ELSE st.gs.shadow_facts[hp].facts
        proven == /\ hp # 0 /\ hyp_facts.concrete /\ hyp_facts.ktype # "none"
                  /\ hyp_facts.depend_allocation # 0
    IN IF ~proven THEN [settified_guard |-> FALSE, settify_dep |-> 0, settify_target |-> 0]
       ELSE [settified_guard |-> SpeshSlots[ins.operands[3].orig] = hyp_facts.ktype,
             settify_dep |-> hyp_facts.depend_allocation,
             settify_target |->
                IF allocation_tracked(st, bb, hyp_facts.allocation)
                THEN hyp_facts.allocation
                ELSE IF allocation_tracked(st, bb, get_facts(st, ins.operands[2]).allocation)
                     THEN get_facts(st, ins.operands[2]).allocation
                     ELSE 0]

\* The sp_guardconc case of analyze's switch.
analyze_guardconc(st, sh, bb, ins, settified_guard) ==
    IF settified_guard
    THEN LET source == get_facts(st, ins.operands[2])
             alloc == source.allocation
         IN IF allocation_tracked(st, bb, alloc)
            THEN LET s1 == [st EXCEPT !.g.facts[RKey(ins.operands[1])].allocation = alloc]
                     s2 == add_tracked_register(s1, ins.operands[1], alloc)
                 IN [s2 EXCEPT !.g.facts[RKey(ins.operands[1])] =
                                    copy_facts_resolved(@, source)]
            ELSE st
    ELSE real_object_required(st, sh, bb, ins, ins.operands[2], TRUE)

\* The body of analyze's instruction loop for one instruction.
\* The plan of an eliminated guard: a GUARD_TO_SET transformation, and the
\* allocation the proof depends on counts as read.
plan_guard_to_set(st, bb, ins, ge) ==
    IF ge.settified_guard
    THEN LET n2 == add_new_transform(st, bb,
                      [ZeroTran EXCEPT !.allocation = ge.settify_dep,
                                       !.transform = "GUARD_TO_SET",
                                       !.ins = ins.id,
                                       !.target_allocation = ge.settify_target])
         IN [n2 EXCEPT !.gs.tracked_allocations[ge.settify_dep].read = TRUE]
    ELSE st

\* The switch on the instruction's opcode.
analyze_opcode(st, sh, bb, ins, settified_guard) ==
    CASE ins.op = "sp_fastcreate" -> analyze_fastcreate(st, bb, ins)
      [] ins.op = "sp_guardconc" ->
             analyze_guardconc(st, sh, bb, ins, settified_guard)
      [] ins.op = "set" -> analyze_set(st, bb, ins)
      [] ins.op \in {"sp_bind_i64", "sp_bind_o"} -> analyze_bind(st, sh, bb, ins)
      [] ins.op \in {"sp_get_i64", "sp_get_o"} -> analyze_get(st, bb, ins)
      [] ins.op \in {"sp_getvc_o", "sp_getvt_o"} -> analyze_vivify(st, bb, ins)
      [] ins.op = "add_I" -> decompose_and_track_bigint_bi(st, sh, bb, ins, "sp_add_bi")
      [] ins.op = "eq_I" -> decompose_bigint_relational(st, sh, bb, ins, "sp_eq_bi")
      [] ins.op = "PHI" -> analyze_phi(st, sh, bb, ins)
      [] OTHER -> unhandled_instruction(st, sh, bb, ins)

\* What precedes the switch: deopt materializations of an instruction that
\* may deoptimize, then the usages of materialized allocations.
analyze_prologue(st, bb, ins) ==
    handle_materialized_usages(
        IF may_cause_deopt(ins) THEN add_deopt_materializations_ins(st, bb, ins)
        ELSE st, bb, ins)

analyze_guarded(st, sh, bb, ins, ge) ==
    analyze_opcode(analyze_prologue(plan_guard_to_set(st, bb, ins, ge), bb, ins),
                   sh, bb, ins, ge.settified_guard)

\* One instruction of analyze's loop.
analyze_ins(st, sh, bb, ins) ==
    analyze_guarded(st, sh, bb, ins, guard_elimination(st, bb, ins))

\* A version of the loop check that never finds an unseen predecessor.
has_unseen_pred_never(st, sh, bb) == FALSE

\* The loop check at the head of a block: some predecessor was not analyzed.
has_unseen_pred(st, sh, bb) ==
    \E j \in 1..Len(sh.pred[bb]) : ~st.gs.seen[rpo_idx(sh, sh.pred[bb][j])]

----------------------------------------------------------------------------
(* Graph manipulation used by the apply phase.  g.versions[orig + 1] is the  *)
(* current SSA version of register orig; g.code[bb] the block's instructions. *)

\* MVM_spesh_manipulate_get_current_version
get_current_version(st, orig) == st.g.versions[orig + 1]

CurrentReg(st, orig) == Reg(orig, get_current_version(st, orig))

\* MVM_spesh_manipulate_get_unique_reg: the register it returns in state st
\* is Len(st.g.versions); this is the state afterwards.
get_unique_reg(st) == [st EXCEPT !.g.versions = Append(@, 0)]

\* MVM_spesh_manipulate_new_version: the state afterwards; the operand it
\* returns is CurrentReg of that state.
new_version(st, orig) == [st EXCEPT !.g.versions[orig + 1] = @ + 1]

FindIns(st, bb, id) ==
    IF \E k \in 1..Len(st.g.code[bb]) : st.g.code[bb][k].id = id
    THEN CHOOSE k \in 1..Len(st.g.code[bb]) : st.g.code[bb][k].id = id
    ELSE 0

\* MVM_spesh_manipulate_delete_ins
delete_ins(st, bb, id) ==
    IF FindIns(st, bb, id) = 0 THEN st
    ELSE [st EXCEPT !.g.code[bb] = RemoveAt(@, FindIns(st, bb, id))]

\* MVM_spesh_manipulate_insert_ins(bb, before->prev, ins): the new instruction
\* lands directly in front of the instruction with id before.
insert_before(st, bb, before, op, operands) ==
    IF FindIns(st, bb, before) = 0 THEN st
    ELSE [st EXCEPT
            !.g.code[bb] = InsertAt(@, FindIns(st, bb, before),
                [id |-> st.g.next_ins_id, op |-> op, operands |-> operands,
                 ann_deopt |-> -1, ann_synth |-> -1]),
            !.g.next_ins_id = @ + 1]

attr_reg(st, hyp) == st.gs.attr_regs[hyp + 1]

\* MVM_intcache_type_index: the integer cache slot of a type, -1 if none.
MVM_intcache_type_index(ty) == IF ty = "TBig" THEN 0 ELSE -1

\* A version that builds a new entry on every call.
get_deopt_materialization_info_fresh(st, alloc) ==
    [st EXCEPT
        !.g.materialize_info = Append(@,
            [stable |-> Alloc(st, alloc).type,
             attr_regs |-> [i \in 1..get_num_attributes(st, alloc) |->
                attr_reg(st, Alloc(st, alloc).hypothetical_attr_reg_idxs[i])]]),
        !.gs.tracked_allocations[alloc].deopt_materialization_idx =
            Len(st.g.materialize_info),
        !.gs.tracked_allocations[alloc].has_deopt_materialization_idx = TRUE]

get_deopt_materialization_info(st, alloc) ==
    IF Alloc(st, alloc).has_deopt_materialization_idx THEN st
    ELSE [st EXCEPT
            !.g.materialize_info = Append(@,
                [stable |-> Alloc(st, alloc).type,
                 attr_regs |-> [i \in 1..get_num_attributes(st, alloc) |->
                    attr_reg(st, Alloc(st, alloc).hypothetical_attr_reg_idxs[i])]]),
            !.gs.tracked_allocations[alloc].deopt_materialization_idx =
                Len(st.g.materialize_info),
            !.gs.tracked_allocations[alloc].has_deopt_materialization_idx = TRUE]

resolve_materialization_target(st, target) ==
    IF target.is_hypothetical
    THEN CurrentReg(st, attr_reg(st, target.hyp_reg))
    ELSE target.reg

ArgOps == {"arg_i", "arg_n", "arg_s", "arg_o", "argconst_i", "argconst_n", "argconst_s"}

\* The position in the block of the insertion point, 0 when the walk runs
\* off the front of the block (MVM_oops).
RECURSIVE find_materialization_insertion_point(_, _, _)
find_materialization_insertion_point(st, bb, k) ==
    IF k = 0 THEN 0
    ELSE IF st.g.code[bb][k].op \in ArgOps
         THEN find_materialization_insertion_point(st, bb, k - 1)
         ELSE k

BindOpForKind(kind) ==
    CASE kind = "obj" -> "sp_bind_o"
      [] kind = "str" -> "sp_bind_s_nowb"
      [] kind = "int64" -> "sp_bind_i64"
      [] kind = "num64" -> "sp_bind_n"
      [] kind = "obi" -> "sp_takewrite_bi"

\* A version that emits no bind at all.
emit_attribute_binds_none(st, bb, prior_to, target, alloc, used, i) == st

RECURSIVE emit_attribute_binds(_, _, _, _, _, _, _)
emit_attribute_binds(st, bb, prior_to, target, alloc, used, i) ==
    IF i > get_num_attributes(st, alloc) THEN st
    ELSE emit_attribute_binds(
            IF used # <<>> /\ used[i] # 0
            THEN insert_before(st, bb, prior_to,
                    BindOpForKind(flattened_type_to_register_kind(
                        STable(Alloc(st, alloc).type).flattened_stables[i])),
                    <<target,
                      Lit(sizeof_MVMObject + attribute_offsets(Alloc(st, alloc).type, i)),
                      CurrentReg(st, attr_reg(st,
                            Alloc(st, alloc).hypothetical_attr_reg_idxs[i]))>>)
            ELSE st,
            bb, prior_to, target, alloc, used, i + 1)

TypeSlot(ty) == CHOOSE k \in 1..Len(SpeshSlots) : SpeshSlots[k] = ty

\* The value an MVMuint32 holds after an int was assigned to it, as its
\* high and low 16-bit halves.
ToUint32(n) ==
    LET lo == n % 65536
    IN [hi |-> ((n - lo) \div 65536) % 65536, lo |-> lo]

\* u >= 0 for an MVMuint32 u.
Uint32NonNegative(u) == u.hi > 0 \/ (u.hi = 0 /\ u.lo >= 0)

\* The value an MVMint16 literal holds after an MVMuint32 was assigned to it.
ToInt16(u) == IF u.lo >= 32768 THEN u.lo - 65536 ELSE u.lo

\* int_cache_type_idx is an MVMuint32: the result of MVM_intcache_type_index
\* is converted on assignment, and the comparison with 0 is unsigned.
emit_materialization(st, bb, prior_to, target, alloc, used) ==
    LET ty == Alloc(st, alloc).type
        int_cache_type_idx == ToUint32(MVM_intcache_type_index(ty))
    IN IF /\ Alloc(st, alloc).bigint
          /\ get_num_attributes(st, alloc) = 1
          /\ Uint32NonNegative(int_cache_type_idx)
       THEN insert_before(st, bb, prior_to, "sp_materialize_bi",
                <<target, Lit(0), Lit(TypeSlot(ty)),
                  Lit(sizeof_MVMObject + attribute_offsets(ty, 1)),
                  CurrentReg(st, attr_reg(st, Alloc(st, alloc).hypothetical_attr_reg_idxs[1])),
                  Lit(ToInt16(int_cache_type_idx))>>)
       ELSE emit_attribute_binds(
                insert_before(st, bb, prior_to, "sp_fastcreate",
                    <<target, Lit(0), Lit(TypeSlot(ty))>>),
                bb, prior_to, target, alloc, used, 1)

RECURSIVE allocate_concrete_registers_from(_, _, _)
allocate_concrete_registers_from(st, alloc, i) ==
    IF i > get_num_attributes(st, alloc) THEN st
    ELSE allocate_concrete_registers_from(
            [get_unique_reg(st) EXCEPT
                !.gs.attr_regs[Alloc(st, alloc).hypothetical_attr_reg_idxs[i] + 1] =
                    Len(st.g.versions)],
            alloc, i + 1)

allocate_concrete_registers(st, alloc) == allocate_concrete_registers_from(st, alloc, 1)

----------------------------------------------------------------------------
(* apply_transform *)

replaced(st, alloc) == alloc # 0 /\ ~Alloc(st, alloc).irreplaceable

rewrite_ins(st, bb, id, op, operands) ==
    IF FindIns(st, bb, id) = 0 THEN st
    ELSE [st EXCEPT !.g.code[bb][FindIns(st, bb, id)] =
            [@ EXCEPT !.op = op, !.operands = operands]]

InsOf(st, bb, id) == st.g.code[bb][FindIns(st, bb, id)]

apply_delete_fastcreate(st, bb, t) ==
    delete_ins(allocate_concrete_registers(st, t.allocation), bb, t.ins)

apply_getattr_to_set(st, bb, t) ==
    IF replaced(st, t.target_allocation)
    THEN delete_ins(st, bb, t.ins)
    ELSE rewrite_ins(st, bb, t.ins, "set",
            <<InsOf(st, bb, t.ins).operands[1],
              CurrentReg(st, attr_reg(st, t.hypothetical_reg_idx))>>)

\* A version that rewrites the bind whatever is bound.
apply_bindattr_to_set_always(st, bb, t) ==
    LET s1 == new_version(st, attr_reg(st, t.hypothetical_reg_idx))
    IN rewrite_ins(s1, bb, t.ins, "set",
            <<CurrentReg(s1, attr_reg(st, t.hypothetical_reg_idx)),
              InsOf(st, bb, t.ins).operands[3]>>)

apply_bindattr_to_set(st, bb, t) ==
    IF replaced(st, t.target_allocation)
    THEN delete_ins(st, bb, t.ins)
    ELSE LET s1 == new_version(st, attr_reg(st, t.hypothetical_reg_idx))
         IN rewrite_ins(s1, bb, t.ins, "set",
                <<CurrentReg(s1, attr_reg(st, t.hypothetical_reg_idx)),
                  InsOf(st, bb, t.ins).operands[3]>>)

apply_add_deopt_point(st, t) ==
    LET s1 == get_deopt_materialization_info(st, t.allocation)
    IN [s1 EXCEPT !.g.deopt_point = Append(@,
            [deopt_point_idx |-> t.deopt_point_idx,
             materialize_info_idx |-> Alloc(s1, t.allocation).deopt_materialization_idx,
             target_reg |-> t.target_reg])]

\* MVM_spesh_usages_add_deopt_usage_by_reg on the current version of the
\* attribute's register.
apply_add_deopt_usage(st, t) ==
    [st EXCEPT !.g.deopt_usages = Append(@,
        [reg |-> CurrentReg(st, attr_reg(st, t.hypothetical_reg_idx)),
         deopt_idx |-> t.deopt_point_idx])]

\* One incoming operand of an applied decomposition: the state after a
\* possible sp_get_bi was put in front of the instruction, and the operand.
obtain_bigint_operand(st, bb, ins_id, obtain_offset, hyp_reg_idx, boxed) ==
    IF obtain_offset # 0
    THEN LET r == Len(st.g.versions)
             s1 == [get_unique_reg(st) EXCEPT !.gs.attr_regs[hyp_reg_idx + 1] = r]
             s2 == new_version(s1, r)
         IN [st |-> insert_before(s2, bb, ins_id, "sp_get_bi",
                        <<CurrentReg(s2, r), boxed, Lit(obtain_offset)>>),
             reg |-> CurrentReg(s2, r)]
    ELSE [st |-> st, reg |-> CurrentReg(st, attr_reg(st, hyp_reg_idx))]

apply_decompose_bigint_bi(st, bb, t) ==
    LET ins == InsOf(st, bb, t.ins)
        ra == obtain_bigint_operand(st, bb, t.ins, t.obtain_offset_a,
                    t.hypothetical_reg_idx_a, ins.operands[2])
        rb == obtain_bigint_operand(ra.st, bb, t.ins, t.obtain_offset_b,
                    t.hypothetical_reg_idx_b, ins.operands[3])
        s1 == allocate_concrete_registers(rb.st, t.allocation)
        res == attr_reg(s1, find_bigint_register(s1, t.allocation))
        s2 == new_version(s1, res)
    IN rewrite_ins(s2, bb, t.ins, t.replace_op, <<CurrentReg(s2, res), ra.reg, rb.reg>>)

\* A version that reads the hypothetical register whatever became of the
\* operand's allocation.
relational_bigint_operand_unboxed(st, bb, ins_id, dep, obtain_offset, hyp_reg_idx, boxed) ==
    [st |-> st, reg |-> CurrentReg(st, attr_reg(st, hyp_reg_idx))]

\* One operand of an applied relational decomposition: the current version
\* of the hypothetical register's concrete register if the allocation the
\* operand depends on is replaced, else a register that an sp_get_bi put in
\* front of the instruction loads from the object.
relational_bigint_operand(st, bb, ins_id, dep, obtain_offset, hyp_reg_idx, boxed) ==
    IF dep # 0 /\ ~Alloc(st, dep).irreplaceable
    THEN [st |-> st, reg |-> CurrentReg(st, attr_reg(st, hyp_reg_idx))]
    ELSE LET r == Len(st.g.versions)
             s1 == [get_unique_reg(st) EXCEPT !.gs.attr_regs[hyp_reg_idx + 1] = r]
             s2 == new_version(s1, r)
         IN [st |-> insert_before(s2, bb, ins_id, "sp_get_bi",
                        <<CurrentReg(s2, r), boxed, Lit(obtain_offset)>>),
             reg |-> CurrentReg(s2, r)]

relational_bigint_operand_b(ra, bb, t, ins) ==
    [a |-> ra.reg,
     b |-> relational_bigint_operand(ra.st, bb, t.ins, t.dep_b, t.obtain_offset_b,
                t.hypothetical_reg_idx_b, ins.operands[3])]

rewrite_relational(r, bb, t, ins) ==
    rewrite_ins(r.b.st, bb, t.ins, t.replace_op, <<ins.operands[1], r.a, r.b.reg>>)

apply_decompose_bigint_rel(st, bb, t) ==
    rewrite_relational(
        relational_bigint_operand_b(
            relational_bigint_operand(st, bb, t.ins, t.dep_a, t.obtain_offset_a,
                t.hypothetical_reg_idx_a, InsOf(st, bb, t.ins).operands[2]),
            bb, t, InsOf(st, bb, t.ins)),
        bb, t, InsOf(st, bb, t.ins))

RECURSIVE emit_alias_sets(_, _, _, _, _, _)
emit_alias_sets(st, bb, prior_to, targets, target_reg, k) ==
    IF k > Len(targets) THEN st
    ELSE emit_alias_sets(
            insert_before(st, bb, prior_to, "set",
                <<resolve_materialization_target(st, targets[k]), target_reg>>),
            bb, prior_to, targets, target_reg, k + 1)

apply_materialize(st, bb, t) ==
    IF Len(t.targets) = 0 \/ FindIns(st, bb, t.prior_to) = 0 THEN st
    ELSE LET used == st.gs.bb_states[t.used_bb].alloc_state[t.allocation].used
             target_reg == resolve_materialization_target(st, t.targets[1])
             ip == find_materialization_insertion_point(st, bb, FindIns(st, bb, t.prior_to))
         IN IF ip = 0 THEN st
            ELSE emit_alias_sets(
                    emit_materialization(st, bb, st.g.code[bb][ip].id, target_reg,
                                         t.allocation, used),
                    bb, t.prior_to, t.targets, target_reg, 2)

\* VIVIFY_TYPE and VIVIFY_CONCRETE: a lookup of the type object into a new
\* version of the attribute's register, for a concrete vivification a clone
\* of it into another new version, and the read becomes a set from the
\* register's current version.
apply_vivify(st, bb, t) ==
    LET r == attr_reg(st, t.hypothetical_reg_idx)
        s1 == new_version(st, r)
        s2 == insert_before(s1, bb, t.ins, "sp_getspeshslot",
                <<CurrentReg(s1, r), Lit(t.type_sslot)>>)
        s3 == new_version(s2, r)
        s4 == IF t.transform = "VIVIFY_CONCRETE"
              THEN insert_before(s3, bb, t.ins, "clone",
                        <<CurrentReg(s3, r), CurrentReg(s1, r)>>)
              ELSE s2
    IN rewrite_ins(s4, bb, t.ins, "set",
            <<InsOf(st, bb, t.ins).operands[1], CurrentReg(s4, r)>>)

\* A version of the check that lets every transformation through.
owner_irreplaceable_ignored(st, t) == FALSE

apply_guard_to_set(st, bb, t) ==
    IF replaced(st, t.target_allocation)
    THEN delete_ins(st, bb, t.ins)
    ELSE rewrite_ins(st, bb, t.ins, "set", SubSeq(InsOf(st, bb, t.ins).operands, 1, 2))

\* The test apply_transform starts with: the transformation has an owning
\* allocation and that allocation was found irreplaceable.
owner_irreplaceable(st, t) ==
    t.allocation # 0 /\ Alloc(st, t.allocation).irreplaceable

apply_transform(st, bb, t) ==
    IF owner_irreplaceable(st, t) THEN st
    ELSE CASE t.transform = "DELETE_FASTCREATE" -> apply_delete_fastcreate(st, bb, t)
           [] t.transform = "GETATTR_TO_SET" -> apply_getattr_to_set(st, bb, t)
           [] t.transform = "BINDATTR_TO_SET" -> apply_bindattr_to_set(st, bb, t)
           [] t.transform = "DELETE_SET" -> delete_ins(st, bb, t.ins)
           [] t.transform = "GUARD_TO_SET" -> apply_guard_to_set(st, bb, t)
           [] t.transform = "ADD_DEOPT_POINT" -> apply_add_deopt_point(st, t)
           [] t.transform = "ADD_DEOPT_USAGE" -> apply_add_deopt_usage(st, t)
           [] t.transform = "DECOMPOSE_BIGINT_BI" -> apply_decompose_bigint_bi(st, bb, t)
           [] t.transform = "DECOMPOSE_BIGINT_REL" -> apply_decompose_bigint_rel(st, bb, t)
           [] t.transform = "MATERIALIZE" -> apply_materialize(st, bb, t)
           [] t.transform \in {"VIVIFY_TYPE", "VIVIFY_CONCRETE"} -> apply_vivify(st, bb, t)

----------------------------------------------------------------------------
(* Input graphs.  A family fixes the control-flow shape and the opcodes the  *)
(* graph is drawn from.  Registers 0..3 exist in every graph: r0 is local 0  *)
(* of the frame, r1 an int64 value, r2 a boxed big integer of type TBig and  *)
(* r3 the TBig type object.                                                  *)

Families ==
    {"line", "ref", "diamond", "big", "deopt", "backedge", "selfloop", "swapped", "types",
     "args", "scalar", "guard", "sum", "rel", "merge", "phi", "viv",
     "nest", "uncached"}

FamilyShape(f) ==
    CASE f \in {"line", "types", "args", "scalar", "guard", "sum", "uncached"} -> Shape("line")
      [] f = "deopt" -> Shape("chain")
      [] f \in {"ref", "nest"} -> Shape("fork")
      [] f \in {"diamond", "big", "rel", "merge", "phi", "viv"} -> Shape("diamond")
      [] OTHER -> Shape(f)

FamilyOps(f) ==
    CASE f = "line" -> {"sp_fastcreate", "set", "sp_bind_i64", "sp_get_i64", "bind_lex"}
      [] f = "ref" -> {"sp_fastcreate", "sp_bind_o", "sp_get_o", "bind_lex"}
      [] f = "diamond" -> {"sp_fastcreate", "sp_bind_i64", "sp_get_i64", "bind_lex"}
      [] f \in {"big", "sum", "uncached"} -> {"add_I", "bind_lex"}
      [] f = "deopt" -> {"sp_fastcreate", "PHI", "sp_guardtype", "bind_lex"}
      [] f \in {"backedge", "selfloop"} -> {"sp_fastcreate", "sp_bind_i64", "bind_lex"}
      [] f = "swapped" -> {"sp_fastcreate", "sp_bind_i64", "sp_get_i64", "bind_lex"}
      [] f = "types" -> {"sp_fastcreate", "bind_lex"}
      [] f = "args" -> {"add_I", "set", "prepargs", "arg_o"}
      [] f = "scalar" -> {"sp_fastcreate", "sp_bind_i64", "sp_get_i64", "return_i"}
      [] f = "guard" -> {"sp_fastcreate", "sp_bind_o", "sp_get_o", "set", "sp_guardconc"}
      [] f = "rel" -> {"add_I", "eq_I", "bind_lex"}
      [] f = "merge" -> {"sp_fastcreate", "sp_bind_o", "sp_get_o", "set", "eq_I"}
      [] f = "phi" -> {"sp_fastcreate", "sp_bind_o", "PHI", "bind_lex"}
      [] f = "viv" -> {"sp_fastcreate", "sp_bind_o", "sp_getvt_o", "sp_getvc_o"}
      [] f = "nest" -> {"sp_fastcreate", "sp_bind_o", "bind_lex"}

FamilyMaxIns(f) ==
    CASE f = "args" -> MaxInsArgs
      [] f = "scalar" -> MaxInsScalar
      [] f = "guard" -> MaxInsGuard
      [] f \in {"rel", "merge"} -> MaxInsRel
      [] f = "phi" -> MaxInsPhi
      [] f = "viv" -> MaxInsViv
      [] f = "nest" -> MaxInsNest
      [] OTHER -> MaxIns

\* The types a family's sp_fastcreate instructions allocate.
FamilyTypes(f) ==
    CASE f = "types" -> {"TMixed", "TNarrow", "TArray"}
      [] f = "scalar" -> {"TPoint"}
      [] f = "merge" -> {"TBoxed"}
      [] OTHER -> {"TPair"}

\* The int attributes (1-based) a family's binds and reads address.
FamilyIntAttrs(f) == IF f = "scalar" THEN {1, 2} ELSE {1}

reg_int == Reg(1, 0)
reg_big == Reg(2, 0)
reg_type == Reg(3, 0)

\* The type of the boxed big integers of the family's graphs.
BigType == IF family = "uncached" THEN "TBigSub" ELSE "TBig"

InitialEnv ==
    << [reg |-> reg_int, kind |-> "int", bb |-> 0],
       [reg |-> reg_big, kind |-> "big", bb |-> 0],
       [reg |-> reg_type, kind |-> "type", bb |-> 0] >>

InitialFacts ==
    (<<0, 0>> :> ZeroFacts) @@ (<<1, 0>> :> ZeroFacts)
        @@ (<<2, 0>> :> [ZeroFacts EXCEPT !.ktype = BigType, !.concrete = TRUE])
        @@ (<<3, 0>> :> [ZeroFacts EXCEPT !.ktype = BigType])

\* The registers of the given kind an instruction of block bb may read.
Visible(sh, bb, kind) ==
    {env[k].reg : k \in {m \in 1..Len(env) :
        /\ env[m].kind = kind
        /\ (env[m].bb = 0 \/ env[m].bb \in sh.dom[bb])}}

Defined(sh, bb, kind) ==
    {env[k].reg : k \in {m \in 1..Len(env) :
        env[m].kind = kind /\ env[m].bb \in sh.dom[bb]}}

Fresh == Reg(Len(g.versions), 1)

\* The deopt indices handed out so far: concrete and synthetic annotations
\* draw their indices from the same counter of the graph.
NumDeoptPoints(sh) ==
    Cardinality(UNION {{<<b, k>> : k \in {m \in 1..Len(prog[b]) : prog[b][m].ann_deopt >= 0}} :
                        b \in 1..sh.nb})
    + Cardinality(UNION {{<<b, k>> : k \in {m \in 1..Len(prog[b]) : prog[b][m].ann_synth >= 0}} :
                        b \in 1..sh.nb})

\* The block holds a prepargs: what follows belongs to the argument sequence.
InArgs(bb) == \E k \in 1..Len(prog[bb]) : prog[bb][k].op = "prepargs"

\* A candidate: the instruction (without id), the kind of the register it
\* defines ("none" if it defines none), and the register that is a deopt
\* user of its deopt point (Lit(0) if none), listed under the index user_idx.
Cand(op, operands, kind) ==
    [op |-> op, operands |-> operands, kind |-> kind, ann_deopt |-> -1,
     ann_synth |-> -1, user |-> Lit(0), user_idx |-> -1]

Candidates(f, sh, bb) ==
    LET objs == Visible(sh, bb, "obj")
        \* the registers known to hold an object with a reference attribute
        pairs == IF f \in {"guard", "merge"}
                 THEN {x \in objs : g.facts[RKey(x)].ktype \in {"TPair", "TBoxed"}}
                 ELSE objs
        \* family nest builds its objects in the entry block and lets them
        \* escape in the arms
        here == f # "nest" \/ bb = sh.rpo[1]
        later == f # "nest" \/ bb # sh.rpo[1]
    IN UNION {
        IF "sp_fastcreate" \in FamilyOps(f) /\ here
            THEN {Cand("sp_fastcreate", <<Fresh, Lit(0), Lit(TypeSlot(ty))>>, "obj") :
                    ty \in FamilyTypes(f)}
            ELSE {},
        IF "set" \in FamilyOps(f) /\ f # "args"
            THEN {Cand("set", <<Fresh, x>>, "obj") : x \in objs} ELSE {},
        IF f = "args" /\ ~InArgs(bb)
            THEN {Cand("add_I", <<Fresh, reg_big, reg_big, reg_type>>, "big")}
                 \cup {Cand("set", <<Fresh, x>>, "big") : x \in Defined(sh, bb, "big")}
                 \cup {Cand("prepargs", <<Lit(0)>>, "none")}
            ELSE {},
        IF f = "args" /\ InArgs(bb)
            THEN {Cand("arg_o", <<Lit(Cardinality({k \in 1..Len(prog[bb]) : prog[bb][k].op = "arg_o"})), x>>,
                       "none") : x \in Visible(sh, bb, "big")}
            ELSE {},
        IF "sp_bind_i64" \in FamilyOps(f)
            THEN {Cand("sp_bind_i64",
                       <<xi[1], Lit(sizeof_MVMObject + attribute_offsets("TPair", xi[2])),
                         reg_int>>,
                       "none") : xi \in objs \X FamilyIntAttrs(f)}
            ELSE {},
        IF "sp_bind_o" \in FamilyOps(f) /\ here
            THEN {Cand("sp_bind_o",
                       <<xy[1], Lit(sizeof_MVMObject + attribute_offsets("TPair", 2)), xy[2]>>,
                       "none") :
                    xy \in pairs \X (CASE f = "guard" -> objs \cup {reg_big, reg_type}
                                        [] f \in {"merge", "viv"} -> {reg_big}
                                        [] OTHER -> objs)}
            ELSE {},
        IF "sp_guardconc" \in FamilyOps(f)
            THEN {[Cand("sp_guardconc", <<Fresh, xt[1], Lit(TypeSlot(xt[2]))>>, "obj")
                        EXCEPT !.ann_deopt = NumDeoptPoints(sh), !.user = xt[3],
                               !.user_idx = NumDeoptPoints(sh)] :
                    xt \in objs \X {"TPair", "TBig"} \X {Reg(4, 1)}}
            ELSE {},
        IF "sp_get_i64" \in FamilyOps(f)
            THEN {Cand("sp_get_i64",
                       <<Fresh, xi[1],
                         Lit(sizeof_MVMObject + attribute_offsets("TPair", xi[2]))>>,
                       "int") : xi \in objs \X FamilyIntAttrs(f)}
            ELSE {},
        IF "sp_get_o" \in FamilyOps(f)
            THEN {Cand("sp_get_o",
                       <<Fresh, x, Lit(sizeof_MVMObject + attribute_offsets("TPair", 2))>>,
                       "obj") : x \in pairs}
            ELSE {},
        IF f = "viv"
            THEN {Cand(xo[2], <<Fresh, xo[1],
                                Lit(sizeof_MVMObject + attribute_offsets("TPair", 2)),
                                Lit(TypeSlot("TBig"))>>, "obj") :
                    xo \in {x \in objs : g.facts[RKey(x)].ktype = "TPair"}
                            \X {"sp_getvt_o", "sp_getvc_o"}}
            ELSE {},
        IF "add_I" \in FamilyOps(f) /\ f # "args"
            THEN {Cand("add_I", <<Fresh, xy[1], xy[2], reg_type>>, "big") :
                    xy \in Visible(sh, bb, "big")
                            \X (IF f = "sum" THEN Visible(sh, bb, "big") ELSE {reg_big})}
            ELSE {},
        IF "eq_I" \in FamilyOps(f)
            THEN {Cand("eq_I", <<Fresh, xy[1], xy[2]>>, "int") :
                    xy \in IF f = "merge" THEN objs \X {reg_big}
                           ELSE (Visible(sh, bb, "big") \X {reg_big})
                                    \cup ({reg_big} \X Visible(sh, bb, "big"))}
            ELSE {},
        IF "PHI" \in FamilyOps(f) /\ f # "phi"
                /\ \A k \in 1..Len(prog[bb]) : prog[bb][k].op = "PHI"
            THEN {Cand("PHI", <<Reg(x.orig, g.versions[x.orig + 1] + 1), x>>, "obj") :
                    x \in {y \in objs : y.i = g.versions[y.orig + 1]}}
            ELSE {},
        \* a phi at the head of a block with two predecessors, one input each
        IF f = "phi" /\ Len(sh.pred[bb]) = 2 /\ Len(prog[bb]) = 0
            THEN {Cand("PHI", <<Reg(xy[1].orig, g.versions[xy[1].orig + 1] + 1),
                                xy[1], xy[2]>>, "obj") :
                    xy \in {y \in objs : y.i = g.versions[y.orig + 1]}
                                \X (objs \cup {reg_big})}
            ELSE {},
        IF "sp_guardtype" \in FamilyOps(f)
            THEN {[Cand("sp_guardtype", <<Fresh, reg_big, Lit(TypeSlot("TBig"))>>, "big")
                        EXCEPT !.ann_deopt = NumDeoptPoints(sh), !.user = u,
                               !.user_idx = NumDeoptPoints(sh)] :
                    u \in objs \cup {Lit(0)}}
                 \* the guard also carries a synthetic annotation, and the
                 \* deopt user is listed under either index
                 \cup {[Cand("sp_guardtype", <<Fresh, reg_big, Lit(TypeSlot("TBig"))>>, "big")
                        EXCEPT !.ann_deopt = NumDeoptPoints(sh),
                               !.ann_synth = NumDeoptPoints(sh) + 1,
                               !.user = ui[1], !.user_idx = NumDeoptPoints(sh) + ui[2]] :
                    ui \in objs \X {0, 1}}
            ELSE {},
        IF "bind_lex" \in FamilyOps(f) /\ later
            THEN {Cand("bind_lex", <<Lit(0), x>>, "none") :
                    x \in objs \cup Defined(sh, bb, "big") \cup Defined(sh, bb, "int")}
            ELSE {},
        IF "return_i" \in FamilyOps(f)
            THEN {Cand("return_i", <<x>>, "none") : x \in Defined(sh, bb, "int")}
            ELSE {}
    }

\* The graphs of families guard, scalar and nest are built in stages: allocations,
\* then binds, then reads, then moves, then the guard or the return that
\* ends the graph.
GuardStage(op) ==
    CASE op = "sp_fastcreate" -> 1
      [] op \in {"sp_bind_o", "sp_bind_i64"} -> 2
      [] op \in {"sp_get_o", "sp_get_i64"} -> 3
      [] op = "set" -> 4
      [] OTHER -> 5

InFamilyOrder(f, bb, op) ==
    \/ f \notin {"guard", "scalar", "nest"}
    \/ Len(prog[bb]) = 0
    \/ GuardStage(op) >= GuardStage(Last(prog[bb]).op)

TotalIns(sh) ==
    Cardinality(UNION {{<<b, k>> : k \in 1..Len(prog[b])} : b \in 1..sh.nb})

\* The graph with the candidate appended to block bb, registered in the
\* facts the earlier passes leave behind.
WithInstruction(st, bb, c) ==
    LET ins == [id |-> st.g.next_ins_id, op |-> c.op, operands |-> c.operands,
                ann_deopt |-> c.ann_deopt, ann_synth |-> c.ann_synth]
        dst == c.operands[1]
        s1 == [st EXCEPT !.g.code[bb] = Append(@, ins), !.g.next_ins_id = @ + 1]
        s2 == IF c.kind = "none" THEN s1
              ELSE [s1 EXCEPT
                    !.g.versions = IF dst.orig = Len(@) THEN Append(@, dst.i)
                                   ELSE [@ EXCEPT ![dst.orig + 1] = dst.i],
                    !.g.facts = (RKey(dst) :> [ZeroFacts EXCEPT
                                    !.ktype =
                                        CASE c.op \in {"sp_fastcreate", "sp_guardconc"} ->
                                                SpeshSlots[c.operands[3].orig]
                                          [] c.kind = "big" -> BigType
                                          [] OTHER -> "none",
                                    !.concrete =
                                        \/ c.op \in {"sp_fastcreate", "sp_guardconc"}
                                        \/ c.kind = "big"]) @@ @]
    IN IF c.user.t = "reg"
       THEN [s2 EXCEPT !.g.facts[RKey(c.user)].deopt_users = @ \cup {c.user_idx}]
       ELSE s2

----------------------------------------------------------------------------
(* The pass: MVM_spesh_pea *)

St == [gs |-> gs, g |-> g]

Sh == FamilyShape(family)

CurBB == IF phase = "analyze" THEN Sh.rpo[pos] ELSE Sh.linear[pos]

InitialGs(sh) ==
    [tracked_allocations |-> <<>>,
     latest_hypothetical_reg_idx |-> 0,
     attr_regs |-> <<>>,
     shadow_facts |-> <<>>,
     tracked_registers |-> <<>>,
     bb_states |-> [b \in 1..sh.nb |-> ZeroBBState],
     trans |-> <<>>,
     seen |-> [b \in 1..sh.nb |-> FALSE],
     found_replaceable |-> FALSE]

InitialG(sh) ==
    [code |-> [b \in 1..sh.nb |-> <<>>],
     facts |-> InitialFacts,
     versions |-> <<0, 0, 0, 0>>,
     next_ins_id |-> 1,
     materialize_info |-> <<>>,
     deopt_point |-> <<>>,
     deopt_usages |-> <<>>]

Init ==
    /\ family \in Families
    /\ prog = [b \in 1..FamilyShape(family).nb |-> <<>>]
    /\ env = InitialEnv
    /\ gs = InitialGs(FamilyShape(family))
    /\ g = InitialG(FamilyShape(family))
    /\ phase = "analyze"
    /\ pos = 1
    /\ tix = 1
    /\ ret = -1
    /\ last = 0
    /\ cu = NoUnit
    /\ rd = NoReader

\* The instruction a candidate becomes in block bb of the current graph.
NewIns(bb, c) == Last(WithInstruction(St, bb, c).g.code[bb])

StateAfter(st) == gs' = st.gs /\ g' = st.g

\* The analysis state after the candidate's instruction was met.
Analyzed(c) ==
    StateAfter(analyze_ins(WithInstruction(St, CurBB, c), Sh, CurBB, NewIns(CurBB, c)))

\* analyze's instruction loop meets the next instruction of the current block.
AnalyzeIns ==
    /\ phase = "analyze"
    /\ TotalIns(Sh) < FamilyMaxIns(family)
    /\ ~(Len(prog[CurBB]) > 0 /\ Last(prog[CurBB]).op \in {"return_i", "sp_guardconc"})
    /\ \E c \in {d \in Candidates(family, Sh, CurBB) : InFamilyOrder(family, CurBB, d.op)} :
        /\ prog' = [prog EXCEPT ![CurBB] = Append(@, NewIns(CurBB, c))]
        /\ env' = IF c.kind = "none" THEN env
                  ELSE Append(env, [reg |-> c.operands[1], kind |-> c.kind, bb |-> CurBB])
        /\ Analyzed(c)
    /\ UNCHANGED <<family, phase, pos, tix, ret, last, cu, rd>>

\* The current block is finished: it is marked seen and analyze moves to the
\* next block in reverse postorder (loop check, then setup_bb_state), or
\* returns after the last one; MVM_spesh_pea then allocates attr_regs when
\* the result is non-zero.
EndBlock ==
    /\ phase = "analyze"
    /\ LET s1 == [St EXCEPT !.gs.seen[pos] = TRUE]
       IN IF pos = Sh.nb
          THEN /\ ret' = IF s1.gs.found_replaceable THEN 1 ELSE 0
               /\ phase' = IF s1.gs.found_replaceable THEN "apply" ELSE "done"
               /\ gs' = [s1.gs EXCEPT !.attr_regs =
                            IF s1.gs.found_replaceable
                            THEN Repeat(0, s1.gs.latest_hypothetical_reg_idx)
                            ELSE @]
               /\ pos' = 1
               /\ g' = g
          ELSE IF has_unseen_pred(s1, Sh, Sh.rpo[pos + 1])
               THEN /\ ret' = 0
                    /\ phase' = "done"
                    /\ gs' = s1.gs
                    /\ pos' = pos + 1
                    /\ g' = g
               ELSE /\ ret' = ret
                    /\ phase' = phase
                    /\ gs' = setup_bb_state(s1, Sh, Sh.rpo[pos + 1]).gs
                    /\ pos' = pos + 1
                    /\ g' = g
    /\ UNCHANGED <<family, prog, env, tix, last, cu, rd>>

\* The transformations of the current block, in planning order.
CurTransformations == gs.bb_states[Sh.linear[pos]].transformations

\* MVM_spesh_pea applies the next transformation of the current block.
ApplyTransform ==
    /\ phase = "apply"
    /\ tix <= Len(CurTransformations)
    /\ LET t == CurTransformations[tix]
           s1 == apply_transform(St, Sh.linear[pos], gs.trans[t])
       IN /\ gs' = s1.gs
          /\ g' = s1.g
          /\ last' = t
    /\ tix' = tix + 1
    /\ UNCHANGED <<family, prog, env, phase, pos, ret, cu, rd>>

NextLinearBlock_again ==
    /\ phase = "apply"
    /\ tix > Len(CurTransformations)
    /\ pos' = IF pos < Sh.nb THEN pos + 1 ELSE 1
    /\ tix' = 1 /\ phase' = phase
    /\ last' = 0
    /\ UNCHANGED <<family, prog, env, gs, g, ret, cu, rd>>

\* The block's transformations are exhausted: follow linear_next, or finish.
NextLinearBlock ==
    /\ phase = "apply"
    /\ tix > Len(CurTransformations)
    /\ IF pos < Sh.nb
       THEN pos' = pos + 1 /\ tix' = 1 /\ phase' = phase
       ELSE pos' = pos /\ tix' = tix /\ phase' = "done"
    /\ last' = 0
    /\ UNCHANGED <<family, prog, env, gs, g, ret, cu, rd>>

Next == AnalyzeIns \/ EndBlock \/ ApplyTransform \/ NextLinearBlock

Spec == Init /\ [][Next]_vars

----------------------------------------------------------------------------
(* Execution of a graph along one path of its shape.  The bytecode the graph *)
(* compiles to addresses a register by its orig alone, so the register file  *)
(* is indexed by orig.  A value is an integer or a reference into the heap;  *)
(* work registers start out zeroed, local 0 holds a value of the frame's own *)
(* (-1 here), r1 holds 7 and r2 a box of the big integer 100.                *)

IntVal(n) == [ref |-> FALSE, n |-> n]
RefVal(h) == [ref |-> TRUE, n |-> h]

InitialRun(nregs) ==
    [regs |-> [k \in 1..nregs |->
                CASE k = 1 -> IntVal(-1)
                  [] k = 2 -> IntVal(7)
                  [] k = 3 -> RefVal(1)
                  [] OTHER -> IntVal(0)],
     heap |-> << [ty |-> BigType, attrs |-> <<IntVal(100)>>, by |-> 0] >>,
     escaped |-> <<>>,
     obs |-> <<>>,
     obs_by |-> <<>>,
     crashed |-> FALSE]

RECURSIVE Snap(_, _, _)
RECURSIVE SnapAttrs(_, _, _, _)

\* What an observer sees of a value down to depth d, as a flat sequence.
Snap(heap, v, d) ==
    IF ~v.ref THEN <<0, v.n>>
    ELSE IF d = 0 THEN <<1>>
         ELSE <<2, TypeSlot(heap[v.n].ty)>> \o SnapAttrs(heap, heap[v.n].attrs, 1, d - 1)

SnapAttrs(heap, attrs, k, d) ==
    IF k > Len(attrs) THEN <<>>
    ELSE Snap(heap, attrs[k], d) \o SnapAttrs(heap, attrs, k + 1, d)

\* The position of the first earlier escape of the same value, 0 if none.
AliasOf(escaped, v) ==
    IF \E k \in 1..Len(escaped) : escaped[k] = v
    THEN CHOOSE k \in 1..Len(escaped) : escaped[k] = v /\ \A m \in 1..(k - 1) : escaped[m] # v
    ELSE 0

R(rt, o) == rt.regs[o.orig + 1]

SetR(rt, o, v) == [rt EXCEPT !.regs[o.orig + 1] = v]

Crash(rt) ==
    [rt EXCEPT !.crashed = TRUE, !.obs = Append(@, <<-9>>), !.obs_by = Append(@, 0)]

\* by is the id of the instruction that allocates the object.
NewObject(rt, o, ty, attrs, by) ==
    SetR([rt EXCEPT !.heap = Append(@, [ty |-> ty, attrs |-> attrs, by |-> by])],
         o, RefVal(Len(rt.heap) + 1))

AttrIdx(rt, objv, lit) ==
    MVM_p6opaque_offset_to_attr_idx(rt.heap[objv.n].ty, lit.orig - sizeof_MVMObject)

\* The big integer a boxed value holds.
BigintOf(rt, objv) ==
    rt.heap[objv.n].attrs[
        MVM_p6opaque_offset_to_attr_idx(rt.heap[objv.n].ty,
            MVM_p6opaque_get_bigint_offset(rt.heap[objv.n].ty) - sizeof_MVMObject)]

\* The value spesh slot k holds for a vivification: a type object, or the
\* prototype a concrete vivification clones.
SlotValue(k) == IntVal(-(100 + k))

\* A vivifying read: an attribute that holds null is first given the type
\* object (sp_getvt_o) or a clone of the prototype (sp_getvc_o).
ExecVivify(rt, ins) ==
    LET ops == ins.operands
        obj == R(rt, ops[2])
        k == AttrIdx(rt, obj, ops[3])
        have == rt.heap[obj.n].attrs[k]
        made == IF ins.op = "sp_getvc_o"
                THEN NewObject(rt, ops[1], SpeshSlots[ops[4].orig],
                        Repeat(IntVal(0), num_attributes(SpeshSlots[ops[4].orig])), ins.id)
                ELSE SetR(rt, ops[1], SlotValue(ops[4].orig))
    IN IF ~obj.ref THEN Crash(rt)
       ELSE IF have # IntVal(0) THEN SetR(rt, ops[1], have)
            ELSE [made EXCEPT !.heap[obj.n].attrs[k] = R(made, ops[1])]

Exec(rt, ins) ==
    LET ops == ins.operands
    IN CASE rt.crashed -> rt
         [] ins.op \in {"sp_getvt_o", "sp_getvc_o"} -> ExecVivify(rt, ins)
         [] ins.op = "sp_getspeshslot" -> SetR(rt, ops[1], SlotValue(ops[2].orig))
         [] ins.op = "clone" ->
                NewObject(rt, ops[1], SpeshSlots[-(R(rt, ops[2]).n) - 100],
                    Repeat(IntVal(0), num_attributes(SpeshSlots[-(R(rt, ops[2]).n) - 100])),
                    ins.id)
         [] ins.op = "sp_fastcreate" ->
                NewObject(rt, ops[1], SpeshSlots[ops[3].orig],
                          Repeat(IntVal(0), num_attributes(SpeshSlots[ops[3].orig])), ins.id)
         [] ins.op \in {"set", "sp_guardtype", "sp_guardconc"} ->
                SetR(rt, ops[1], R(rt, ops[2]))
         [] ins.op \in {"sp_bind_i64", "sp_bind_o", "sp_takewrite_bi"} ->
                IF R(rt, ops[1]).ref
                THEN [rt EXCEPT !.heap[R(rt, ops[1]).n].attrs[AttrIdx(rt, R(rt, ops[1]), ops[2])] =
                                    R(rt, ops[3])]
                ELSE Crash(rt)
         [] ins.op \in {"sp_get_i64", "sp_get_o", "sp_get_bi"} ->
                IF R(rt, ops[2]).ref
                THEN SetR(rt, ops[1],
                          rt.heap[R(rt, ops[2]).n].attrs[AttrIdx(rt, R(rt, ops[2]), ops[3])])
                ELSE Crash(rt)
         [] ins.op = "add_I" ->
                IF R(rt, ops[2]).ref /\ R(rt, ops[3]).ref
                THEN NewObject(rt, ops[1], BigType,
                        <<IntVal(rt.heap[R(rt, ops[2]).n].attrs[1].n
                                    + rt.heap[R(rt, ops[3]).n].attrs[1].n)>>, ins.id)
                ELSE Crash(rt)
         [] ins.op = "sp_add_bi" ->
                SetR(rt, ops[1], IntVal(R(rt, ops[2]).n + R(rt, ops[3]).n))
         [] ins.op = "eq_I" ->
                IF R(rt, ops[2]).ref /\ R(rt, ops[3]).ref
                THEN SetR(rt, ops[1],
                          IntVal(IF BigintOf(rt, R(rt, ops[2])) = BigintOf(rt, R(rt, ops[3]))
                                 THEN 1 ELSE 0))
                ELSE Crash(rt)
         [] ins.op = "sp_eq_bi" ->
                SetR(rt, ops[1], IntVal(IF R(rt, ops[2]) = R(rt, ops[3]) THEN 1 ELSE 0))
         [] ins.op = "sp_materialize_bi" ->
                NewObject(rt, ops[1], SpeshSlots[ops[3].orig], <<R(rt, ops[5])>>, ins.id)
         [] ins.op = "return_i" ->
                [rt EXCEPT !.obs = Append(@, <<0>> \o Snap(rt.heap, R(rt, ops[1]), 2)),
                           !.obs_by = Append(@, 0)]
         [] ins.op \in {"bind_lex", "arg_o"} ->
                [rt EXCEPT !.obs = Append(@, <<AliasOf(rt.escaped, R(rt, ops[2]))>>
                                                \o Snap(rt.heap, R(rt, ops[2]), 2)),
                           !.obs_by = Append(@, IF R(rt, ops[2]).ref
                                                THEN rt.heap[R(rt, ops[2]).n].by ELSE 0),
                           !.escaped = Append(@, R(rt, ops[2]))]
         [] OTHER -> rt

RECURSIVE ExecSeq(_, _, _)
ExecSeq(rt, inss, k) ==
    IF k > Len(inss) THEN rt ELSE ExecSeq(Exec(rt, inss[k]), inss, k + 1)

RECURSIVE ExecPath(_, _, _, _)
ExecPath(rt, code, path, k) ==
    IF k > Len(path) THEN rt
    ELSE ExecPath(ExecSeq(rt, code[path[k]], 1), code, path, k + 1)

RECURSIVE FinalSnaps(_, _)
FinalSnaps(rt, k) ==
    IF k > Len(rt.escaped) THEN <<>>
    ELSE <<Snap(rt.heap, rt.escaped[k], 2)>> \o FinalSnaps(rt, k + 1)

\* Everything an observer gets from running code along path: each value
\* stored to a lexical as it was then, and as it is when the frame returns.
Run(code, path) == ExecPath(InitialRun(Len(g.versions)), code, path, 1)

Observe(code, path) == Run(code, path).obs \o FinalSnaps(Run(code, path), 1)

----------------------------------------------------------------------------
(* Properties *)

Done == phase = "done"

Applied == Done /\ ret = 1

\* C1: for every loop-free input graph, the transformed graph yields the
\* same observable results and side effects as the graph it was given, on
\* every path.
C1_Refinement ==
    Done => \A path \in Sh.paths : Observe(g.code, path) = Observe(prog, path)

----------------------------------------------------------------------------
(* Bail-out on loops and the deferral of graph edits *)

\* The graph and its deopt side tables are as they were given to the pass.
Untouched(gr) ==
    /\ gr.code = prog
    /\ gr.materialize_info = <<>>
    /\ gr.deopt_point = <<>>
    /\ gr.deopt_usages = <<>>

\* Block b, about to be entered after the first n blocks of the reverse
\* postorder were analyzed, has a predecessor that is not among them.
PredNotAnalyzed(n, b) ==
    \E j \in 1..Len(Sh.pred[b]) : rpo_idx(Sh, Sh.pred[b][j]) > n

\* C2: when a block is reached in reverse postorder while one of its
\* predecessors (the block itself included) is not yet fully analyzed,
\* analyze returns 0 at once, whatever was tracked and planned before;
\* nothing is applied afterwards and the code, the materialize-info table
\* and the deopt-point table stay as they were.
C2_LoopBailOut ==
    /\ [][(phase = "analyze" /\ pos' = pos + 1 /\ PredNotAnalyzed(pos, Sh.rpo[pos + 1]))
            => (ret' = 0 /\ phase' = "done" /\ Untouched(g'))]_vars
    /\ [](ret = 0 => (phase = "done" /\ Untouched(g)))

\* analyze bailed out at a block with an unanalyzed predecessor after it
\* had tracked an allocation and planned transformations.
C2_Witness ==
    /\ Done /\ ret = 0 /\ pos <= Sh.nb
    /\ PredNotAnalyzed(pos - 1, Sh.rpo[pos])
    /\ gs.found_replaceable /\ Len(gs.trans) > 0

\* C3: while analysis runs, no instruction is inserted, deleted or rewritten
\* and nothing is appended to the materialize-info and deopt-point tables;
\* such edits are made in the apply phase only, which runs only after
\* analyze returned non-zero for the whole graph.
C3_AnalysisOnlyPlans ==
    /\ phase = "analyze" => Untouched(g)
    /\ phase = "apply" => (ret = 1 /\ \A b \in 1..Sh.nb : gs.seen[b])
    /\ ~Untouched(g) => (phase \in {"apply", "done"} /\ ret = 1)

\* Analysis of the last block is under way with transformations planned for
\* at least two instructions.
C3_Witness ==
    /\ phase = "analyze" /\ pos = Sh.nb /\ Len(prog[CurBB]) > 0
    /\ gs.found_replaceable /\ Len(gs.trans) >= 2

----------------------------------------------------------------------------
(* Concrete registers, materialized attributes, deopt coverage *)

HypRegsOf(st, alloc) ==
    {Alloc(st, alloc).hypothetical_attr_reg_idxs[i] : i \in 1..get_num_attributes(st, alloc)}

\* The hypothetical registers whose concrete register apply_transform looks
\* up in attr_regs when it applies t in block bb (the registers t allocates
\* itself are not among them).
HypsRead(st, bb, t) ==
    CASE t.transform \in {"GETATTR_TO_SET", "BINDATTR_TO_SET"} ->
            IF replaced(st, t.target_allocation) THEN {} ELSE {t.hypothetical_reg_idx}
      [] t.transform = "ADD_DEOPT_USAGE" -> {t.hypothetical_reg_idx}
      [] t.transform \in {"VIVIFY_TYPE", "VIVIFY_CONCRETE"} -> {t.hypothetical_reg_idx}
      [] t.transform = "ADD_DEOPT_POINT" ->
            IF Alloc(st, t.allocation).has_deopt_materialization_idx THEN {}
            ELSE HypRegsOf(st, t.allocation)
      [] t.transform = "DECOMPOSE_BIGINT_BI" ->
            (IF t.obtain_offset_a = 0 THEN {t.hypothetical_reg_idx_a} ELSE {})
                \cup (IF t.obtain_offset_b = 0 THEN {t.hypothetical_reg_idx_b} ELSE {})
      [] t.transform = "DECOMPOSE_BIGINT_REL" ->
            (IF replaced(st, t.dep_a) THEN {t.hypothetical_reg_idx_a} ELSE {})
                \cup (IF replaced(st, t.dep_b) THEN {t.hypothetical_reg_idx_b} ELSE {})
      [] t.transform = "MATERIALIZE" ->
            IF Len(t.targets) = 0 \/ FindIns(st, bb, t.prior_to) = 0 THEN {}
            ELSE LET used == st.gs.bb_states[t.used_bb].alloc_state[t.allocation].used
                     idxs == Alloc(st, t.allocation).hypothetical_attr_reg_idxs
                 IN {t.targets[k].hyp_reg :
                        k \in {m \in 1..Len(t.targets) : t.targets[m].is_hypothetical}}
                    \cup (IF Alloc(st, t.allocation).bigint THEN {idxs[1]}
                          ELSE {idxs[i] : i \in {j \in 1..Len(idxs) :
                                                    used # <<>> /\ used[j] # 0}})
      [] OTHER -> {}

\* C4: every hypothetical register whose concrete register an applied
\* transformation reads was given a concrete register by a transformation
\* applied earlier, also when the linear block order differs from the
\* reverse postorder of analysis.
C4_ConcreteBeforeUse ==
    (phase = "apply" /\ tix <= Len(CurTransformations)) =>
        LET t == gs.trans[CurTransformations[tix]]
        IN ~owner_irreplaceable(St, t) =>
            \A h \in HypsRead(St, CurBB, t) : gs.attr_regs[h + 1] # 0

\* The ids of the instructions of the graph as given.
OriginalIds == UNION {{prog[b][k].id : k \in 1..Len(prog[b])} : b \in 1..Sh.nb}

\* C5: a materialized object carries, for every attribute written before
\* the materialization point, the value the original program last bound to
\* it on the executed path (a reference to another tracked allocation
\* included), and the default for attributes never written: wherever the
\* transformed graph lets an object escape that a materialization created,
\* the object looks as the original object did at that point.
C5_MaterializedAttributes ==
    Applied =>
        \A path \in Sh.paths :
            LET o == Run(prog, path)
                n == Run(g.code, path)
            IN \A k \in 1..Len(n.obs_by) :
                (n.obs_by[k] # 0 /\ n.obs_by[k] \notin OriginalIds)
                    => (k <= Len(o.obs) /\ n.obs[k] = o.obs[k])

\* C6: for every deopt point D and every tracked allocation A with a
\* register that is a deopt user of D, A ends the pass irreplaceable or there
\* is a deopt-point entry for D whose materialize-info entry names the
\* concrete registers of A's attributes.
C6_DeoptCoverage ==
    Applied =>
        \A rk \in DOMAIN g.facts : \A D \in g.facts[rk].deopt_users :
            LET A == g.facts[rk].allocation
            IN A # 0 =>
                \/ Alloc(St, A).irreplaceable
                \/ \E k \in 1..Len(g.deopt_point) :
                    /\ g.deopt_point[k].deopt_point_idx = D
                    /\ g.deopt_point[k].materialize_info_idx < Len(g.materialize_info)
                    /\ LET mi == g.materialize_info[g.deopt_point[k].materialize_info_idx + 1]
                       IN /\ mi.stable = Alloc(St, A).type
                          /\ mi.attr_regs =
                                [i \in 1..get_num_attributes(St, A) |->
                                    gs.attr_regs[Alloc(St, A).hypothetical_attr_reg_idxs[i] + 1]]
                          /\ \A i \in 1..Len(mi.attr_regs) : mi.attr_regs[i] # 0

----------------------------------------------------------------------------
(* Irreplaceability: propagation, stickiness, effect on apply *)

NumAllocs == Len(gs.tracked_allocations)

Irreplaceable(a) == gs.tracked_allocations[a].irreplaceable

\* The allocation that owns hypothetical register h (0 if none does).
OwnerOfHyp(h) ==
    IF \E a \in 1..NumAllocs : h \in HypRegsOf(St, a)
    THEN CHOOSE a \in 1..NumAllocs : h \in HypRegsOf(St, a)
    ELSE 0

\* Every escape dependency that analysis has pushed so far, read off the
\* transformations planned at the same time: a bind of one tracked object
\* into another, and a decomposition that takes a tracked operand.
DepEdges ==
    {<<gs.trans[t].allocation, gs.trans[t].target_allocation>> :
        t \in {u \in 1..Len(gs.trans) :
                /\ gs.trans[u].transform = "BINDATTR_TO_SET"
                /\ gs.trans[u].target_allocation # 0}}
    \cup {<<gs.trans[t].allocation, OwnerOfHyp(gs.trans[t].hypothetical_reg_idx_a)>> :
        t \in {u \in 1..Len(gs.trans) :
                /\ gs.trans[u].transform = "DECOMPOSE_BIGINT_BI"
                /\ gs.trans[u].obtain_offset_a = 0}}
    \cup {<<gs.trans[t].allocation, OwnerOfHyp(gs.trans[t].hypothetical_reg_idx_b)>> :
        t \in {u \in 1..Len(gs.trans) :
                /\ gs.trans[u].transform = "DECOMPOSE_BIGINT_BI"
                /\ gs.trans[u].obtain_offset_b = 0}}

RECURSIVE ReachFrom(_, _)
ReachFrom(S, n) ==
    IF n = 0 THEN S
    ELSE ReachFrom(S \cup {e[2] : e \in {d \in DepEdges : d[1] \in S}}, n - 1)

\* a and everything that escapes when a escapes.
DependentOn(a) == ReachFrom({a}, NumAllocs)

\* C7: a transformation whose owning allocation is irreplaceable, or
\* transitively dependent on an irreplaceable allocation, is a no-op when it
\* is applied: no instruction is inserted, deleted or rewritten, no register
\* allocated, no deopt entry appended.
C7_IrreplaceableNoOp ==
    [][(/\ phase = "apply"
        /\ tix <= Len(CurTransformations)
        /\ LET t == gs.trans[CurTransformations[tix]]
           IN /\ t.allocation # 0
              /\ \E a \in 1..NumAllocs : Irreplaceable(a) /\ t.allocation \in DependentOn(a))
            => (g' = g /\ gs' = gs)]_vars

\* The latest apply step met a transformation of an irreplaceable allocation
\* that had been planned to rewrite the graph.
C7_Witness ==
    /\ phase = "apply" /\ last # 0
    /\ gs.trans[last].allocation # 0
    /\ Irreplaceable(gs.trans[last].allocation)
    /\ gs.trans[last].transform \in {"DELETE_FASTCREATE", "BINDATTR_TO_SET",
                                     "DECOMPOSE_BIGINT_BI", "MATERIALIZE"}

RECURSIVE EscapeReach(_, _, _)
EscapeReach(allocs, S, n) ==
    IF n = 0 THEN S
    ELSE EscapeReach(allocs,
            S \cup UNION {{allocs[a].escape_dependencies[k] :
                            k \in 1..Len(allocs[a].escape_dependencies)} : a \in S},
            n - 1)

\* C8: when mark_irreplaceable marks an allocation, the allocation and all
\* that is reachable from it over the escape-dependency edges present at
\* that time are irreplaceable afterwards; so in every state reached by
\* binds, decompositions, escapes and merges, whatever depends on an
\* irreplaceable allocation is irreplaceable.
C8_TransitiveMarking ==
    /\ [][\A a \in 1..NumAllocs :
            (~Irreplaceable(a) /\ gs'.tracked_allocations[a].irreplaceable)
                => \A d \in EscapeReach(gs.tracked_allocations, {a}, NumAllocs) :
                        gs'.tracked_allocations[d].irreplaceable]_vars
    /\ [](\A a \in 1..NumAllocs :
            Irreplaceable(a) => \A d \in DependentOn(a) : Irreplaceable(d))

\* An allocation was bound into another one and both ended up irreplaceable.
C8_Witness ==
    \E e \in DepEdges : e[1] # e[2] /\ Irreplaceable(e[1]) /\ Irreplaceable(e[2])

\* C9: in no step of analysis or of applying transformations does an
\* allocation go from irreplaceable back to replaceable.
C9_Sticky ==
    [][\A a \in 1..NumAllocs :
        Irreplaceable(a) => gs'.tracked_allocations[a].irreplaceable]_vars

\* Transformations were applied while one allocation was irreplaceable and
\* another one replaced.
C9_Witness ==
    /\ Applied
    /\ \E a, b \in 1..NumAllocs : Irreplaceable(a) /\ ~Irreplaceable(b)

----------------------------------------------------------------------------
(* Merge of the used flags at block entry *)

AtBlockEntry == phase = "analyze" /\ pos > 1 /\ Len(prog[CurBB]) = 0

\* The predecessors of b whose state has seen allocation a.
SeenPreds(b, a) ==
    {Sh.pred[b][j] : j \in {m \in 1..Len(Sh.pred[b]) :
        /\ a <= Len(gs.bb_states[Sh.pred[b][m]].alloc_state)
        /\ gs.bb_states[Sh.pred[b][m]].alloc_state[a].seen}}

PredWrote(p, a, k) ==
    LET u == gs.bb_states[p].alloc_state[a].used
    IN u # <<>> /\ u[k] # 0

MergedUsed(b, a, k) ==
    LET u == gs.bb_states[b].alloc_state[a].used
    IN IF u = <<>> THEN 0 ELSE u[k]

\* C10: at the entry of a block, for every allocation that stays
\* replaceable and every attribute, the merged used flag is 1 only if every
\* predecessor that has seen the allocation wrote the attribute and 0 only
\* if none did; an allocation on which these predecessors disagree is
\* irreplaceable, and so is all that depends on it.
C10_UsedMerge ==
    AtBlockEntry =>
        \A a \in 1..NumAllocs :
            LET ps == SeenPreds(CurBB, a)
                attrs == 1..get_num_attributes(St, a)
            IN /\ ~Irreplaceable(a) =>
                    \A k \in attrs :
                        /\ MergedUsed(CurBB, a, k) \in {0, 1}
                        /\ MergedUsed(CurBB, a, k) = 1 => \A p \in ps : PredWrote(p, a, k)
                        /\ MergedUsed(CurBB, a, k) = 0 => \A p \in ps : ~PredWrote(p, a, k)
               /\ (\E k \in attrs : \E p, q \in ps : PredWrote(p, a, k) /\ ~PredWrote(q, a, k))
                    => \A d \in DependentOn(a) : Irreplaceable(d)

\* Block p holds a bind to an attribute of allocation a that was planned
\* as a write to its register.
BindsIn(p, a) ==
    \E j \in 1..Len(gs.bb_states[p].transformations) :
        LET t == gs.trans[gs.bb_states[p].transformations[j]]
        IN t.transform = "BINDATTR_TO_SET" /\ t.allocation = a

\* A block with two predecessors is entered with a replaceable allocation
\* made before the branch, an attribute of which each of the two wrote.
C10_Witness ==
    /\ AtBlockEntry
    /\ \E a \in 1..NumAllocs :
        /\ ~Irreplaceable(a)
        /\ Cardinality(SeenPreds(CurBB, a)) = 2
        /\ \A p \in SeenPreds(CurBB, a) : BindsIn(p, a)
        /\ \E k \in 1..get_num_attributes(St, a) : MergedUsed(CurBB, a, k) = 1
----------------------------------------------------------------------------
(* Merge of the materialization state at block entry *)

\* analyze finishes a block and enters the next one through setup_bb_state.
MergeStep == phase = "analyze" /\ phase' = "analyze" /\ pos' = pos + 1

\* The predecessors of b that have seen allocation a and hold a planned
\* materialization of it.
MaterializedPreds(b, a) ==
    {p \in SeenPreds(b, a) : Len(gs.bb_states[p].alloc_state[a].materializations) > 0}

\* The materializations of allocation a in the predecessors of b.
PredMaterializations(b, a) ==
    UNION {{gs.bb_states[p].alloc_state[a].materializations[k] :
                k \in 1..Len(gs.bb_states[p].alloc_state[a].materializations)} :
            p \in SeenPreds(b, a)}

DuplicateFree(s) == \A i, j \in 1..Len(s) : s[i] = s[j] => i = j

\* The predecessors of b that have seen a agree on each attribute of a:
\* all of them wrote it or none did.
WritesAgree(b, a) ==
    \A k \in 1..get_num_attributes(St, a) :
        \/ \A p \in SeenPreds(b, a) : PredWrote(p, a, k)
        \/ \A p \in SeenPreds(b, a) : ~PredWrote(p, a, k)

\* The entry state of block b in the next state holds the duplicate-free
\* union of the materializations of a in b's predecessors.
EntryHoldsUnion(b, a) ==
    LET m == gs'.bb_states[b].alloc_state[a].materializations
    IN DuplicateFree(m) /\ {m[k] : k \in 1..Len(m)} = PredMaterializations(b, a)

\* C11 as stated: at a merge, if among the predecessors that have seen an
\* allocation at least one has a planned materialization for it and at least
\* one has none, the allocation is marked irreplaceable; if all of them
\* materialized it, the block's entry state holds the duplicate-free union of
\* their materialization transforms and the allocation stays replaceable.
C11_AsStated ==
    [][MergeStep =>
        \A a \in 1..NumAllocs :
            LET b == Sh.rpo[pos + 1]
                P == SeenPreds(b, a)
                M == MaterializedPreds(b, a)
            IN /\ (M # {} /\ M # P) => gs'.tracked_allocations[a].irreplaceable
               /\ (P # {} /\ M = P) =>
                    /\ EntryHoldsUnion(b, a)
                    /\ gs'.tracked_allocations[a].irreplaceable = Irreplaceable(a)]_vars

\* C11: at a merge, an allocation materialized in some but not all of the
\* predecessors that have seen it is marked irreplaceable.  If all of them
\* materialized it and they agree on the attributes written, the entry
\* state holds the duplicate-free union of their materializations, and the
\* allocation becomes irreplaceable only when the same merge marks another
\* allocation that has it among its escape dependencies.  If all of them
\* materialized it but they disagree on the attributes written, the
\* allocation is marked irreplaceable and the entry state holds no
\* materialization of it.
C11_MergeMaterializations ==
    [][MergeStep =>
        \A a \in 1..NumAllocs :
            LET b == Sh.rpo[pos + 1]
                P == SeenPreds(b, a)
                M == MaterializedPreds(b, a)
            IN /\ (M # {} /\ M # P) => gs'.tracked_allocations[a].irreplaceable
               /\ (P # {} /\ M = P /\ WritesAgree(b, a)) =>
                    /\ EntryHoldsUnion(b, a)
                    /\ (~Irreplaceable(a) /\ gs'.tracked_allocations[a].irreplaceable) =>
                        \E d \in (1..NumAllocs) \ {a} :
                            /\ ~Irreplaceable(d)
                            /\ gs'.tracked_allocations[d].irreplaceable
                            /\ a \in EscapeReach(gs.tracked_allocations, {d}, NumAllocs)
               /\ (P # {} /\ M = P /\ ~WritesAgree(b, a)) =>
                    /\ gs'.tracked_allocations[a].irreplaceable
                    /\ gs'.bb_states[b].alloc_state[a].materializations = <<>>]_vars

\* A block with two predecessors is entered with a replaceable allocation
\* that each of the two materialized on its own: the entry state holds both
\* materializations.
C11_Witness ==
    /\ AtBlockEntry
    /\ \E a \in 1..NumAllocs :
        /\ ~Irreplaceable(a)
        /\ Cardinality(SeenPreds(CurBB, a)) = 2
        /\ MaterializedPreds(CurBB, a) = SeenPreds(CurBB, a)
        /\ Len(gs.bb_states[CurBB].alloc_state[a].materializations) = 2
----------------------------------------------------------------------------
(* real_object_required *)

\* The registers an instruction at the end of the current block may read.
ReadableRegs ==
    Visible(Sh, CurBB, "obj") \cup Visible(Sh, CurBB, "big") \cup Visible(Sh, CurBB, "int")

\* An instruction about to be analyzed that reads register o.
ConsumerOf(o) ==
    [id |-> g.next_ins_id, op |-> "bind_lex", operands |-> <<Lit(0), o>>,
     ann_deopt |-> -1, ann_synth |-> -1]

\* The transformations of state r that state St does not have yet.
PlannedSince(r) == (Len(gs.trans) + 1)..Len(r.gs.trans)

IrreplaceableIn(r) ==
    {a \in 1..Len(r.gs.tracked_allocations) : r.gs.tracked_allocations[a].irreplaceable}

MaterializationsIn(st, bb, a) ==
    IF a <= Len(st.gs.bb_states[bb].alloc_state)
    THEN st.gs.bb_states[bb].alloc_state[a].materializations
    ELSE <<>>

\* C12: real_object_required(op, can_materialize) on a register whose
\* allocation is replaceable and has no materialization in the current block
\* plans exactly one materialize transform with op as its only target (for
\* that allocation, before the consuming instruction, recorded in the
\* block's allocation state and on its transformation list; any further
\* transform it plans is a materialize of another allocation into a
\* hypothetical register) when can_materialize is true and
\* (allocation.read or allocation.bigint or the current block is in a branch
\* relative to the allocating block), and otherwise marks the allocation
\* irreplaceable and plans nothing; on a register with no allocation, an
\* irreplaceable allocation or one already materialized in this block it
\* changes nothing.
C12_RealObjectRequired ==
    phase = "analyze" =>
        \A o \in ReadableRegs : \A can_materialize \in BOOLEAN :
            LET a == get_facts(St, o).allocation
                r == real_object_required(St, Sh, CurBB, ConsumerOf(o), o, can_materialize)
                sole == {t \in PlannedSince(r) :
                            /\ r.gs.trans[t].transform = "MATERIALIZE"
                            /\ r.gs.trans[t].targets =
                                    << [is_hypothetical |-> FALSE, reg |-> o, hyp_reg |-> 0] >>}
            IN IF /\ a # 0
                  /\ ~Irreplaceable(a)
                  /\ MaterializationsIn(St, CurBB, a) = <<>>
               THEN IF /\ can_materialize
                       /\ \/ Alloc(St, a).read
                          \/ Alloc(St, a).bigint
                          \/ in_branch(Sh, Alloc(St, a).allocator_bb, CurBB)
                    THEN /\ Cardinality(sole) = 1
                         /\ \A t \in sole :
                                /\ r.gs.trans[t].allocation = a
                                /\ r.gs.trans[t].prior_to = ConsumerOf(o).id
                                /\ MaterializationsIn(r, CurBB, a) = <<t>>
                                /\ Contains(r.gs.bb_states[CurBB].transformations, t)
                         /\ \A t \in PlannedSince(r) \ sole :
                                /\ r.gs.trans[t].transform = "MATERIALIZE"
                                /\ r.gs.trans[t].allocation # a
                                /\ Len(r.gs.trans[t].targets) = 1
                                /\ r.gs.trans[t].targets[1].is_hypothetical
                         /\ IrreplaceableIn(r) = IrreplaceableIn(St)
                         /\ r.g = g
                    ELSE /\ r.gs.tracked_allocations[a].irreplaceable
                         /\ PlannedSince(r) = {}
                         /\ r.gs.bb_states = gs.bb_states
                         /\ r.g = g
               ELSE r = St

\* The last instruction analyzed is an unhandled reader of a register whose
\* allocation got a materialization with that register as its only target,
\* while another allocation was marked irreplaceable.
C12_Witness ==
    /\ phase = "analyze" /\ Len(prog[CurBB]) > 0
    /\ Last(prog[CurBB]).op = "bind_lex"
    /\ \E t \in 1..Len(gs.trans) :
        /\ gs.trans[t].transform = "MATERIALIZE"
        /\ gs.trans[t].prior_to = Last(prog[CurBB]).id
        /\ gs.trans[t].targets =
            << [is_hypothetical |-> FALSE, reg |-> Last(prog[CurBB]).operands[2],
                hyp_reg |-> 0] >>
        /\ ~Irreplaceable(gs.trans[t].allocation)
        /\ \E b \in 1..NumAllocs : Irreplaceable(b)
----------------------------------------------------------------------------
(* try_track_allocation *)

\* The attribute is a reference, a big integer, a signed 64-bit int, a
\* 64-bit num or a string.
HandledAttribute(st) ==
    \/ st.repr_id = "NULL"
    \/ st.repr_id = "P6bigint"
    \/ st.boxed_primitive = "int" /\ st.bits = 64 /\ ~st.is_unsigned
    \/ st.boxed_primitive = "num" /\ st.bits = 64
    \/ st.boxed_primitive = "str"

Trackable(ty) ==
    /\ STable(ty).repr_id = "P6opaque"
    /\ \A i \in 1..num_attributes(ty) : HandledAttribute(STable(ty).flattened_stables[i])

\* An allocating instruction about to be analyzed.
AllocatorOf(ty) ==
    [id |-> g.next_ins_id, op |-> "sp_fastcreate", operands |-> <<Fresh, Lit(0), Lit(0)>>,
     ann_deopt |-> -1, ann_synth |-> -1]

\* C13: try_track_allocation returns an allocation record if and only if
\* the type is a P6opaque whose every attribute is a reference, a big
\* integer, a signed 64-bit int, a 64-bit num or a string; on success it
\* assigns one hypothetical register per attribute, sets bigint iff some
\* attribute is a big integer, appends the allocation to the tracked vector
\* with index equal to its position, adds the output register to the
\* tracked-register table and marks the allocation seen in the current
\* block; on failure it adds no allocation and no tracked register.
C13_TryTrackAllocation ==
    phase = "analyze" =>
        \A ty \in AllTypes :
            LET r == try_track_allocation(St, CurBB, AllocatorOf(ty), ty)
                n == NumAllocs
            IN /\ try_track_allocation_ok(ty) <=> Trackable(ty)
               /\ try_track_allocation_ok(ty) <=> Len(r.gs.tracked_allocations) = n + 1
               /\ IF Trackable(ty)
                  THEN LET al == r.gs.tracked_allocations[n + 1]
                           idxs == al.hypothetical_attr_reg_idxs
                       IN /\ SubSeq(r.gs.tracked_allocations, 1, n) = gs.tracked_allocations
                          /\ al.type = ty /\ al.index = n
                          /\ al.allocator = AllocatorOf(ty).id /\ al.allocator_bb = CurBB
                          /\ ~al.irreplaceable
                          /\ Len(idxs) = num_attributes(ty)
                          /\ \A i \in 1..Len(idxs) :
                                idxs[i] = gs.latest_hypothetical_reg_idx + i - 1
                          /\ r.gs.latest_hypothetical_reg_idx =
                                gs.latest_hypothetical_reg_idx + num_attributes(ty)
                          /\ al.bigint <=>
                                \E i \in 1..num_attributes(ty) :
                                    STable(ty).flattened_stables[i].repr_id = "P6bigint"
                          /\ r.gs.tracked_registers =
                                Append(gs.tracked_registers, [reg |-> Fresh, allocation |-> n + 1])
                          /\ r.gs.bb_states[CurBB].alloc_state[n + 1].seen
                  ELSE /\ r.gs.tracked_allocations = gs.tracked_allocations
                       /\ r.gs.tracked_registers = gs.tracked_registers
                       /\ r.gs.bb_states = gs.bb_states

\* The block holds an allocation of a type with a 32-bit int attribute that
\* was not tracked, and a tracked allocation of a type with reference,
\* string, num and big integer attributes.
C13_Witness ==
    /\ phase = "analyze"
    /\ \E k \in 1..Len(prog[CurBB]) :
        /\ prog[CurBB][k].op = "sp_fastcreate"
        /\ SpeshSlots[prog[CurBB][k].operands[3].orig] = "TNarrow"
        /\ get_facts(St, prog[CurBB][k].operands[1]).allocation = 0
        /\ \A j \in 1..Len(gs.tracked_registers) :
                gs.tracked_registers[j].reg # prog[CurBB][k].operands[1]
    /\ \E k \in 1..Len(prog[CurBB]) :
        /\ prog[CurBB][k].op = "sp_fastcreate"
        /\ SpeshSlots[prog[CurBB][k].operands[3].orig] = "TMixed"
        /\ LET a == get_facts(St, prog[CurBB][k].operands[1]).allocation
           IN /\ a # 0
              /\ Alloc(St, a).bigint
              /\ Alloc(St, a).index = a - 1
              /\ Contains(gs.tracked_registers,
                          [reg |-> prog[CurBB][k].operands[1], allocation |-> a])
              /\ gs.bb_states[CurBB].alloc_state[a].seen
----------------------------------------------------------------------------
(* Where a materialization is placed *)

IdsOf(code) == {code[k].id : k \in 1..Len(code)}

\* The position of the instruction with the given id (0 if there is none).
PosOf(code, id) ==
    IF id \in IdsOf(code) THEN CHOOSE k \in 1..Len(code) : code[k].id = id ELSE 0

\* The apply step at hand applies a materialization that has a target and
\* whose anchor is in the block.
MaterializeStep ==
    /\ phase = "apply" /\ tix <= Len(CurTransformations)
    /\ LET t == gs.trans[CurTransformations[tix]]
       IN /\ t.transform = "MATERIALIZE"
          /\ ~owner_irreplaceable(St, t)
          /\ Len(t.targets) > 0
          /\ t.prior_to \in IdsOf(g.code[CurBB])

\* The position, in the block after the step, of the nearest instruction of
\* the block before the step that is at or before the anchor and is not an
\* argument op (0 if there is none).
NearestNonArg(old, new, anchor) ==
    LET ks == {k \in 1..PosOf(new, anchor) :
                new[k].id \in IdsOf(old) /\ new[k].op \notin ArgOps}
    IN IF ks = {} THEN 0 ELSE CHOOSE k \in ks : \A m \in ks : m <= k

\* Instruction k of the block is new and the instructions of the old block
\* next to it on either side are argument ops.
InsideArgs(old, new, k) ==
    /\ new[k].id \notin IdsOf(old)
    /\ \E i \in 1..(k - 1) :
        /\ new[i].id \in IdsOf(old) /\ new[i].op \in ArgOps
        /\ \A m \in (i + 1)..(k - 1) : new[m].id \notin IdsOf(old)
    /\ \E j \in (k + 1)..Len(new) :
        /\ new[j].id \in IdsOf(old) /\ new[j].op \in ArgOps
        /\ \A m \in (k + 1)..(j - 1) : new[m].id \notin IdsOf(old)

\* C14: no instruction emitted by applying a materialize transform (the
\* fastcreate or materialize_bi, the attribute binds, and the alias sets for
\* additional targets) is placed between two instructions of an argument
\* sequence: all are placed before the nearest instruction at or before the
\* anchor that is not an argument op.
C14_InsertionPoint ==
    [][MaterializeStep =>
        LET old == g.code[CurBB]
            new == g'.code[CurBB]
            anchor == gs.trans[CurTransformations[tix]].prior_to
        IN \A k \in 1..Len(new) :
            /\ ~InsideArgs(old, new, k)
            /\ new[k].id \notin IdsOf(old) => k < NearestNonArg(old, new, anchor)]_vars
----------------------------------------------------------------------------
(* The materialize-info table *)

\* The allocations that have an entry in the materialize-info table.
WithMaterializeInfo ==
    {a \in 1..NumAllocs : gs.tracked_allocations[a].has_deopt_materialization_idx}

\* The apply step at hand applies an add-deopt-point of a replaced allocation.
AddDeoptPointStep ==
    /\ phase = "apply" /\ tix <= Len(CurTransformations)
    /\ gs.trans[CurTransformations[tix]].transform = "ADD_DEOPT_POINT"
    /\ ~owner_irreplaceable(St, gs.trans[CurTransformations[tix]])

\* C15: after any sequence of applied transformations the materialize-info
\* table holds at most one entry per allocation: the first add-deopt-point
\* applied for an allocation appends its entry and every later deopt-point
\* entry for the same allocation carries the same materialize-info index;
\* no other step touches the table.
C15_MaterializeInfoMemo ==
    /\ [](/\ Len(g.materialize_info) = Cardinality(WithMaterializeInfo)
          /\ \A a \in WithMaterializeInfo :
                /\ gs.tracked_allocations[a].deopt_materialization_idx < Len(g.materialize_info)
                /\ \A b \in WithMaterializeInfo :
                    gs.tracked_allocations[a].deopt_materialization_idx =
                        gs.tracked_allocations[b].deopt_materialization_idx => a = b)
    /\ [][IF AddDeoptPointStep
          THEN LET a == gs.trans[CurTransformations[tix]].allocation
                   idx == gs'.tracked_allocations[a].deopt_materialization_idx
               IN /\ Len(g'.deopt_point) = Len(g.deopt_point) + 1
                  /\ Last(g'.deopt_point).materialize_info_idx = idx
                  /\ gs'.tracked_allocations[a].has_deopt_materialization_idx
                  /\ IF a \in WithMaterializeInfo
                     THEN /\ g'.materialize_info = g.materialize_info
                          /\ idx = gs.tracked_allocations[a].deopt_materialization_idx
                     ELSE /\ Len(g'.materialize_info) = Len(g.materialize_info) + 1
                          /\ SubSeq(g'.materialize_info, 1, Len(g.materialize_info))
                                = g.materialize_info
                          /\ idx = Len(g.materialize_info)
                          /\ Last(g'.materialize_info).stable = Alloc(St, a).type
          ELSE g'.materialize_info = g.materialize_info]_vars

\* Two deopt-point entries were made for one allocation and share its only
\* materialize-info entry.
C15_Witness ==
    /\ Len(g.materialize_info) = 1
    /\ Len(g.deopt_point) >= 2
    /\ \A k \in 1..Len(g.deopt_point) : g.deopt_point[k].materialize_info_idx = 0
    /\ \E a \in WithMaterializeInfo :
        Cardinality({t \in 1..Len(gs.trans) :
            gs.trans[t].transform = "ADD_DEOPT_POINT" /\ gs.trans[t].allocation = a}) >= 2
----------------------------------------------------------------------------
(* Worked inputs *)

\* The number of planned transformations of the given kind.
Planned(kind) == Cardinality({t \in 1..Len(gs.trans) : gs.trans[t].transform = kind})

OffsetOf(i) == sizeof_MVMObject + attribute_offsets("TPoint", i)

\* The input is: r = sp_fastcreate TPoint; sp_bind_i64 r.a; sp_bind_i64 r.b;
\* v = sp_get_i64 r.a; return_i v.
NonEscapingInput ==
    /\ family = "scalar" /\ Len(prog[1]) = 5
    /\ prog[1][1].op = "sp_fastcreate"
    /\ prog[1][2].op = "sp_bind_i64" /\ prog[1][2].operands[1] = prog[1][1].operands[1]
    /\ prog[1][2].operands[2] = Lit(OffsetOf(1))
    /\ prog[1][3].op = "sp_bind_i64" /\ prog[1][3].operands[1] = prog[1][1].operands[1]
    /\ prog[1][3].operands[2] = Lit(OffsetOf(2))
    /\ prog[1][4].op = "sp_get_i64" /\ prog[1][4].operands[2] = prog[1][1].operands[1]
    /\ prog[1][4].operands[3] = Lit(OffsetOf(1))
    /\ prog[1][5].op = "return_i" /\ prog[1][5].operands[1] = prog[1][4].operands[1]

\* C16: for the straight-line input fastcreate r1; two int attribute binds
\* into r1; an int attribute read r2 from r1; return_i r2, analysis plans
\* exactly one delete-fastcreate, two bindattr-to-set and one getattr-to-set,
\* plans no materialize transform, and the allocation is replaceable at the
\* end, so after application the fastcreate is gone and the binds and the
\* read are sets on the synthetic attribute registers: each bind writes the
\* bound value to the register of its attribute, and the read copies the
\* register written by the bind of the attribute it reads.
C16_NonEscaping ==
    NonEscapingInput =>
        /\ Len(gs.trans) = 4
        /\ Planned("DELETE_FASTCREATE") = 1
        /\ Planned("BINDATTR_TO_SET") = 2
        /\ Planned("GETATTR_TO_SET") = 1
        /\ Planned("MATERIALIZE") = 0
        /\ NumAllocs = 1 /\ ~Irreplaceable(1)
        /\ phase = "done" =>
            LET code == g.code[1]
                ra == gs.attr_regs[Alloc(St, 1).hypothetical_attr_reg_idxs[1] + 1]
                rb == gs.attr_regs[Alloc(St, 1).hypothetical_attr_reg_idxs[2] + 1]
            IN /\ ret = 1
               /\ Len(code) = 4
               /\ ra >= 4 /\ rb >= 4 /\ ra # rb
               /\ ra \notin {prog[1][1].operands[1].orig, prog[1][4].operands[1].orig}
               /\ rb \notin {prog[1][1].operands[1].orig, prog[1][4].operands[1].orig}
               /\ code[1].id = prog[1][2].id /\ code[1].op = "set"
               /\ code[1].operands = <<Reg(ra, 1), prog[1][2].operands[3]>>
               /\ code[2].id = prog[1][3].id /\ code[2].op = "set"
               /\ code[2].operands = <<Reg(rb, 1), prog[1][3].operands[3]>>
               /\ code[3].id = prog[1][4].id /\ code[3].op = "set"
               /\ code[3].operands = <<prog[1][4].operands[1], Reg(ra, 1)>>
               /\ code[4] = prog[1][5]
               /\ g.materialize_info = <<>> /\ g.deopt_point = <<>>

\* The input was analyzed and its transformations applied.
C16_Witness == NonEscapingInput /\ Applied /\ Len(g.code[1]) = 4
----------------------------------------------------------------------------
(* Escape of an allocation that was read *)

UnhandledReaders == {"bind_lex", "arg_o", "return_i"}

\* The register an unhandled reader consumes.
ConsumedBy(ins) == ins.operands[CHOOSE i \in ReadPositions(ins) : TRUE]

\* analyze meets an unhandled instruction that reads a register of
\* allocation a, which is tracked in the block, replaceable, and was read.
EscapesAfterRead(a) ==
    /\ phase = "analyze" /\ phase' = "analyze" /\ pos' = pos
    /\ Len(prog'[CurBB]) = Len(prog[CurBB]) + 1
    /\ Last(prog'[CurBB]).op \in UnhandledReaders
    /\ RKey(ConsumedBy(Last(prog'[CurBB]))) \in DOMAIN g.facts
    /\ get_facts(St, ConsumedBy(Last(prog'[CurBB]))).allocation = a
    /\ allocation_tracked(St, CurBB, a)
    /\ Alloc(St, a).read

\* Transformation t is a materialization planned by real_object_required
\* (its initial target is a register an instruction consumes) for an
\* allocation made by a fastcreate that had been read by then.
MaterializedAfterRead(t) ==
    /\ gs.trans[t].transform = "MATERIALIZE"
    /\ Len(gs.trans[t].targets) > 0
    /\ ~Last(gs.trans[t].targets).is_hypothetical
    /\ ~Alloc(St, gs.trans[t].allocation).bigint
    /\ \E u \in 1..(t - 1) :
        /\ gs.trans[u].transform = "GETATTR_TO_SET"
        /\ gs.trans[u].allocation = gs.trans[t].allocation

BindOps == {"sp_bind_o", "sp_bind_s_nowb", "sp_bind_i64", "sp_bind_n", "sp_takewrite_bi"}

\* The attributes (1-based, ascending) of allocation a written in block bb.
RECURSIVE WrittenAttrs(_, _, _)
WrittenAttrs(a, bb, i) ==
    IF i > get_num_attributes(St, a) THEN <<>>
    ELSE (IF PredWrote(bb, a, i) THEN <<i>> ELSE <<>>) \o WrittenAttrs(a, bb, i + 1)

\* The instructions code[from..] are an object creation into register
\* target: a fastcreate of a's type followed by one bind per written
\* attribute, at that attribute's offset.
IsCreation(code, from, target, a, attrs) ==
    /\ from >= 1 /\ from + Len(attrs) <= Len(code)
    /\ code[from].op = "sp_fastcreate"
    /\ code[from].operands[1] = target
    /\ SpeshSlots[code[from].operands[3].orig] = Alloc(St, a).type
    /\ \A j \in 1..Len(attrs) :
        /\ code[from + j].op \in BindOps
        /\ code[from + j].operands[1] = target
        /\ code[from + j].operands[2] =
                Lit(sizeof_MVMObject + attribute_offsets(Alloc(St, a).type, attrs[j]))

\* The instructions with the given ids, in the order of code.
Keep(code, ids) == SelectSeq(code, LAMBDA i : i.id \in ids)

\* What planning does at the escape, and what stays true of every replaced
\* allocation: its allocating instruction is gone and each of its binds is a
\* set or gone.
EscapePlansMaterialization ==
    [][\A a \in 1..NumAllocs :
        EscapesAfterRead(a) =>
            /\ ~gs'.tracked_allocations[a].irreplaceable
            /\ \E t \in (Len(gs.trans) + 1)..Len(gs'.trans) :
                /\ gs'.trans[t].transform = "MATERIALIZE"
                /\ gs'.trans[t].allocation = a
                /\ gs'.trans[t].prior_to = Last(prog'[CurBB]).id
                /\ gs'.trans[t].targets =
                    << [is_hypothetical |-> FALSE,
                        reg |-> ConsumedBy(Last(prog'[CurBB])), hyp_reg |-> 0] >>]_vars

ReplacedAllocationsRewritten ==
    Applied =>
        \A t \in 1..Len(gs.trans) :
            (gs.trans[t].allocation # 0 /\ ~Irreplaceable(gs.trans[t].allocation)) =>
                LET code == g.code[Alloc(St, gs.trans[t].allocation).allocator_bb]
                IN /\ gs.trans[t].transform = "DELETE_FASTCREATE" =>
                        gs.trans[t].ins \notin UNION {IdsOf(g.code[b]) : b \in 1..Sh.nb}
                   /\ gs.trans[t].transform = "BINDATTR_TO_SET" =>
                        \A b \in 1..Sh.nb : \A k \in 1..Len(g.code[b]) :
                            g.code[b][k].id = gs.trans[t].ins => g.code[b][k].op = "set"

\* The transformation an apply step is about to perform.
CurT == gs.trans[CurTransformations[tix]]

\* What a materialization step inserts into its block: the creation of the
\* object in the first target before the insertion point, and one set per
\* further target before the anchor; nothing else changes.
EmittedBy(old, new, t) ==
    LET a == t.allocation
        attrs == WrittenAttrs(a, t.used_bb, 1)
        T1 == resolve_materialization_target(St, t.targets[1])
        m == Len(t.targets)
        p == PosOf(new, t.prior_to)
        q == NearestNonArg(old, new, t.prior_to)
        boxed == Alloc(St, a).bigint /\ get_num_attributes(St, a) = 1
        c == IF boxed THEN 1 ELSE 1 + Len(attrs)
        e == IF q = p THEN p - (m - 1) ELSE q
    IN /\ q > 0
       /\ Keep(new, IdsOf(old)) = old
       /\ Len(new) = Len(old) + c + (m - 1)
       /\ e - c >= 1
       /\ IF boxed
          THEN new[e - 1].op = "sp_materialize_bi" /\ new[e - 1].operands[1] = T1
          ELSE IsCreation(new, e - c, T1, a, attrs)
       /\ \A k \in 2..m :
            /\ new[p - m + k - 1].op = "set"
            /\ new[p - m + k - 1].operands =
                    <<resolve_materialization_target(St, t.targets[k]), T1>>

MaterializationEmitted ==
    [][MaterializeStep => EmittedBy(g.code[CurBB], g'.code[CurBB], CurT)]_vars

----------------------------------------------------------------------------
(* Decomposition of big integer operations *)

\* analyze meets an add_I.
MeetsBigintOp ==
    /\ phase = "analyze" /\ phase' = "analyze" /\ pos' = pos
    /\ Len(prog'[CurBB]) = Len(prog[CurBB]) + 1
    /\ Last(prog'[CurBB]).op = "add_I"

\* The allocation tracked when the step began that register o aliases, if it
\* is tracked and not materialized in the current block (0 otherwise).
TrackedInput(o) ==
    IF allocation_tracked(St, CurBB, get_facts(St, o).allocation)
    THEN get_facts(St, o).allocation
    ELSE 0

AllHypRegs(st) == UNION {HypRegsOf(st, a) : a \in 1..Len(st.gs.tracked_allocations)}

\* How the decomposition record treats input o: hyp is the hypothetical
\* register it names for o and off the offset it loads o's value from.
InputDecomposed(o, hyp, off, result) ==
    IF TrackedInput(o) # 0
    THEN /\ hyp = find_bigint_register(St, TrackedInput(o))
         /\ off = 0
         /\ \E k \in 1..Len(gs'.tracked_allocations[result].escape_dependencies) :
                gs'.tracked_allocations[result].escape_dependencies[k] = TrackedInput(o)
    ELSE /\ hyp \notin AllHypRegs([gs |-> gs', g |-> g'])
         /\ hyp >= gs.latest_hypothetical_reg_idx
         /\ hyp < gs'.latest_hypothetical_reg_idx
         /\ off = MVM_p6opaque_get_bigint_offset(get_facts(St, o).ktype)
         /\ off # 0

DecompositionPlanned ==
    [][MeetsBigintOp =>
        LET ins == Last(prog'[CurBB])
            t == Last(gs'.trans)
        IN /\ Len(gs'.trans) = Len(gs.trans) + 1
           /\ t.transform = "DECOMPOSE_BIGINT_BI" /\ t.ins = ins.id
           /\ t.allocation = Len(gs'.tracked_allocations)
           /\ Len(gs'.tracked_allocations) = Len(gs.tracked_allocations) + 1
           /\ InputDecomposed(ins.operands[2], t.hypothetical_reg_idx_a,
                              t.obtain_offset_a, t.allocation)
           /\ InputDecomposed(ins.operands[3], t.hypothetical_reg_idx_b,
                              t.obtain_offset_b, t.allocation)
           /\ (TrackedInput(ins.operands[2]) = 0 /\ TrackedInput(ins.operands[3]) = 0)
                => t.hypothetical_reg_idx_a # t.hypothetical_reg_idx_b]_vars

\* The instruction of the block's code that loads register r, if any.
LoadsOf(code, r) ==
    {k \in 1..Len(code) : code[k].op = "sp_get_bi" /\ code[k].operands[1] = r}

\* What applying a decomposition does to its block: the instruction becomes
\* the register op, an input with a load offset is read by an sp_get_bi
\* inserted before it, and an input without one is the current version of
\* the concrete register of the hypothetical register: where the producer of
\* that input is replaced, the register the producer wrote, which no
\* sp_get_bi loads.  The transformation inserts no instruction but the loads
\* of the inputs that have an offset.
DecompositionApplied ==
    [][(/\ phase = "apply" /\ tix <= Len(CurTransformations)
        /\ CurT.transform = "DECOMPOSE_BIGINT_BI"
        /\ ~owner_irreplaceable(St, CurT)) =>
        LET old == g.code[CurBB]
            new == g'.code[CurBB]
            p == PosOf(new, CurT.ins)
            was == old[PosOf(old, CurT.ins)]
            loads == (IF CurT.obtain_offset_a # 0 THEN 1 ELSE 0)
                        + (IF CurT.obtain_offset_b # 0 THEN 1 ELSE 0)
            Input(k, hyp, off) ==
                IF off # 0
                THEN \E j \in (p - loads)..(p - 1) :
                        /\ new[j].id \notin IdsOf(old)
                        /\ new[j].op = "sp_get_bi"
                        /\ new[j].operands = <<new[p].operands[k], was.operands[k], Lit(off)>>
                ELSE /\ new[p].operands[k] = CurrentReg(St, gs.attr_regs[hyp + 1])
                     /\ LET x == OwnerOfHyp(hyp)
                            xcode == g'.code[Alloc(St, x).allocator_bb]
                            xp == PosOf(xcode, Alloc(St, x).allocator)
                        IN ~Irreplaceable(x) =>
                            /\ LoadsOf(new, new[p].operands[k]) = {}
                            /\ (xp # 0 /\ xcode[xp].op = "sp_add_bi")
                                    => xcode[xp].operands[1] = new[p].operands[k]
        IN /\ Len(new) = Len(old) + loads
           /\ Keep(new, IdsOf(old) \ {CurT.ins}) = Keep(old, IdsOf(old) \ {CurT.ins})
           /\ new[p].op = CurT.replace_op
           /\ Input(2, CurT.hypothetical_reg_idx_a, CurT.obtain_offset_a)
           /\ Input(3, CurT.hypothetical_reg_idx_b, CurT.obtain_offset_b)]_vars

\* An unhandled instruction that reads the result of a decomposition plans
\* nothing for the allocations the result was computed from and leaves them
\* replaceable.
InputsSurviveEscape ==
    [][\A r \in 1..NumAllocs :
        (/\ phase = "analyze" /\ phase' = "analyze" /\ pos' = pos
         /\ Len(prog'[CurBB]) = Len(prog[CurBB]) + 1
         /\ Last(prog'[CurBB]).op \in UnhandledReaders
         /\ get_facts(St, ConsumedBy(Last(prog'[CurBB]))).allocation = r
         /\ Alloc(St, r).bigint
         /\ allocation_tracked(St, CurBB, r)) =>
            \A k \in 1..Len(Alloc(St, r).escape_dependencies) :
                LET x == Alloc(St, r).escape_dependencies[k]
                IN /\ gs'.tracked_allocations[x].irreplaceable = Irreplaceable(x)
                   /\ \A t \in (Len(gs.trans) + 1)..Len(gs'.trans) :
                        gs'.trans[t].allocation = x => gs'.trans[t].transform # "MATERIALIZE"]_vars

\* The block and position in the input graph of the instruction with this id.
ProgIns(id) ==
    LET bk == CHOOSE bk \in {<<b, k>> : b \in 1..Sh.nb, k \in 1..MaxInsArgs} :
                    bk[2] <= Len(prog[bk[1]]) /\ prog[bk[1]][bk[2]].id = id
    IN prog[bk[1]][bk[2]]

\* A boxed big integer is materialized only before an instruction that reads
\* a register aliasing it.
MaterializedWhereConsumed ==
    \A t \in 1..Len(gs.trans) :
        (/\ gs.trans[t].transform = "MATERIALIZE"
         /\ Alloc(St, gs.trans[t].allocation).bigint) =>
            LET e == ProgIns(gs.trans[t].prior_to)
            IN /\ e.op \in UnhandledReaders
               /\ get_facts(St, ConsumedBy(e)).allocation = gs.trans[t].allocation

\* C18: analyze plans a decomposition for an add_I whose operand types are
\* known.  Each input that aliases a tracked allocation not materialized in
\* the block is given that allocation's big integer hypothetical register
\* and no load offset, and the allocation is pushed on the result's escape
\* dependencies; every other input is given a fresh hypothetical register
\* and the offset to load its value from.  Applied, the op reads the register
\* the producer of a tracked input wrote, with no sp_get_bi for it, and an
\* escape of the result plans no materialization of the inputs.
C18_BigintChain ==
    /\ DecompositionPlanned
    /\ DecompositionApplied
    /\ InputsSurviveEscape
    /\ []MaterializedWhereConsumed

\* (a + b) + c was transformed where the sum escapes: both adds are register
\* ops, the second reads the register the first wrote, the only load ahead
\* of the second is that of c, and the one box made is the escaping sum.
C18_Witness ==
    /\ Applied /\ family = "sum"
    /\ Len(g.code[1]) >= 6
    /\ \E i, j, e \in 1..Len(g.code[1]) :
        /\ i < j /\ j < e
        /\ g.code[1][i].op = "sp_add_bi" /\ g.code[1][j].op = "sp_add_bi"
        /\ g.code[1][j].operands[2] = g.code[1][i].operands[1]
        /\ LoadsOf(g.code[1], g.code[1][j].operands[2]) = {}
        /\ LoadsOf(g.code[1], g.code[1][j].operands[3]) = {j - 1}
        /\ g.code[1][e - 1].op = "sp_materialize_bi"
        /\ g.code[1][e - 1].operands[5] = g.code[1][j].operands[1]
        /\ g.code[1][e].op = "bind_lex"
        /\ g.code[1][e].operands[2] = g.code[1][e - 1].operands[1]
        /\ Cardinality({k \in 1..Len(g.code[1]) : g.code[1][k].op = "sp_materialize_bi"}) = 1
----------------------------------------------------------------------------
(* Elimination of concrete-type guards *)

\* analyze meets a concrete-type guard.
MeetsGuard ==
    /\ phase = "analyze" /\ phase' = "analyze" /\ pos' = pos
    /\ Len(prog'[CurBB]) = Len(prog[CurBB]) + 1
    /\ Last(prog'[CurBB]).op = "sp_guardconc"

\* The shadow facts held for concrete register o prove that it holds a
\* concrete object of type ty.
ProvenBy(st, o, ty) ==
    /\ get_shadow_facts_c_pos(st, o) # 0
    /\ LET f == st.gs.shadow_facts[get_shadow_facts_c_pos(st, o)].facts
       IN f.concrete /\ f.ktype = ty /\ f.depend_allocation # 0

\* Instruction k of the block is the move that produced the guarded register
\* from a register whose shadow facts prove the guarded type.
ProvenThroughSet(st, code, guard, k) ==
    /\ code[k].op = "set"
    /\ code[k].operands[1] = guard.operands[2]
    /\ ProvenBy(st, code[k].operands[2], SpeshSlots[guard.operands[3].orig])

\* The step plans a guard-to-set for the guard, requires no real object
\* (nothing is materialized, nothing becomes irreplaceable), and gives the
\* guard's output the tracked allocation of the guarded register.
GuardEliminated(guard) ==
    /\ \E t \in (Len(gs.trans) + 1)..Len(gs'.trans) :
        gs'.trans[t].transform = "GUARD_TO_SET" /\ gs'.trans[t].ins = guard.id
    /\ \A t \in (Len(gs.trans) + 1)..Len(gs'.trans) : gs'.trans[t].transform # "MATERIALIZE"
    /\ \A a \in 1..NumAllocs : gs'.tracked_allocations[a].irreplaceable = Irreplaceable(a)
    /\ allocation_tracked(St, CurBB, get_facts(St, guard.operands[2]).allocation) =>
            g'.facts[RKey(guard.operands[1])].allocation
                = get_facts(St, guard.operands[2]).allocation

\* C19: a concrete-type guard on a register produced by a set from a
\* register whose shadow facts prove the guarded type is eliminated:
\* analysis plans a guard-to-set for it, requires no real object for the
\* guarded value, and the guard's output aliases the tracked allocation.
C19_GuardAfterSet ==
    [][MeetsGuard =>
        \A k \in 1..Len(prog[CurBB]) :
            ProvenThroughSet(St, prog[CurBB], Last(prog'[CurBB]), k)
                => GuardEliminated(Last(prog'[CurBB]))]_vars

\* Analysis is over for a graph that ends in a guard on a register produced
\* by a set from a register whose shadow facts prove the guarded type.
C19_Witness ==
    /\ Done /\ family = "guard" /\ Len(prog[1]) > 1
    /\ Last(prog[1]).op = "sp_guardconc"
    /\ \E k \in 1..(Len(prog[1]) - 1) : ProvenThroughSet(St, prog[1], Last(prog[1]), k)

\* C20: when analysis plans a guard-to-set for a concrete-type guard, it
\* plans no add-deopt-point and no add-deopt-usage for the guard's deopt
\* index.
C20_NoDeoptPointForEliminatedGuard ==
    [][(/\ MeetsGuard
        /\ \E t \in (Len(gs.trans) + 1)..Len(gs'.trans) :
            /\ gs'.trans[t].transform = "GUARD_TO_SET"
            /\ gs'.trans[t].ins = Last(prog'[CurBB]).id) =>
        \A t \in (Len(gs.trans) + 1)..Len(gs'.trans) :
            gs'.trans[t].transform \in {"ADD_DEOPT_POINT", "ADD_DEOPT_USAGE"}
                => gs'.trans[t].deopt_point_idx # Last(prog'[CurBB]).ann_deopt]_vars

\* A graph was transformed whose guard was eliminated while a replaced
\* object was live across it: the guard is gone or a set.
C20_Witness ==
    /\ Applied /\ family = "guard"
    /\ Last(prog[1]).op = "sp_guardconc"
    /\ \E t \in 1..Len(gs.trans) :
        /\ gs.trans[t].transform = "GUARD_TO_SET"
        /\ gs.trans[t].ins = Last(prog[1]).id
        /\ ~Irreplaceable(gs.trans[t].allocation)
    /\ \A k \in 1..Len(g.code[1]) : g.code[1][k].op # "sp_guardconc"
    /\ \E a \in 1..NumAllocs :
        /\ ~Irreplaceable(a)
        /\ Last(prog[1]).ann_deopt \in g.facts[<<4, 1>>].deopt_users
----------------------------------------------------------------------------
(* An allocation the predecessors of a merge disagree on *)

GivenInstructions == UNION {{prog[b][k] : k \in 1..Len(prog[b])} : b \in 1..Sh.nb}

\* The registers the given graph copies a register of S into: the outputs of
\* sets, guards and single-input phis.
RECURSIVE AliasClosure(_, _)
AliasClosure(S, n) ==
    IF n = 0 THEN S
    ELSE AliasClosure(
            S \cup {i.operands[1] : i \in {j \in GivenInstructions :
                        /\ \/ j.op \in {"set", "sp_guardconc", "sp_guardtype"}
                           \/ j.op = "PHI" /\ Len(j.operands) = 2
                        /\ j.operands[2] \in S}},
            n - 1)

\* The registers that hold allocation a in the given graph: those its facts
\* were attached to, and the copies of the register it was created in.
RegistersOf(a) ==
    {Reg(r[1], r[2]) : r \in {x \in DOMAIN g.facts : g.facts[x].allocation = a}}
        \cup AliasClosure({ProgIns(Alloc(St, a).allocator).operands[1]},
                          Cardinality(GivenInstructions))

\* A transformation owned by another allocation, or by none, was planned for
\* the instruction.
PlannedByOther(id, a) ==
    \E t \in 1..Len(gs.trans) : gs.trans[t].ins = id /\ gs.trans[t].allocation # a

\* The instruction has a register of allocation a among its operands.
OnAllocation(ins, a) ==
    \E i \in 1..Len(ins.operands) :
        ins.operands[i].t = "reg" /\ ins.operands[i] \in RegistersOf(a)

\* The instruction is in the block as it was given.
Verbatim(b, ins) == \E j \in 1..Len(g.code[b]) : g.code[b][j] = ins

\* Two predecessors of some block that have seen allocation a disagree on
\* whether one of its attributes was written.
MergeDisagreement(a) ==
    \E b \in 1..Sh.nb : \E k \in 1..get_num_attributes(St, a) :
        \E p, q \in SeenPreds(b, a) : PredWrote(p, a, k) /\ ~PredWrote(q, a, k)

\* C21 as stated: when the predecessors of a merge disagree on whether an
\* attribute of an allocation was written, every instruction of the given
\* graph with a register of that allocation among its operands (the
\* big integer comparisons on it included) is in the final graph unchanged.
C21_AsStated ==
    Applied =>
        \A a \in 1..NumAllocs :
            MergeDisagreement(a) =>
                \A b \in 1..Sh.nb : \A k \in 1..Len(prog[b]) :
                    OnAllocation(prog[b][k], a) => Verbatim(b, prog[b][k])

\* C21: when the predecessors of a merge disagree on whether an attribute of
\* an allocation was written, the allocation ends the pass irreplaceable and
\* every instruction on one of its registers (its creation, the sets that
\* alias it, the reads and writes of its attributes, the instructions it
\* escapes through) is in the final graph unchanged, unless a transformation
\* owned by another allocation or by none was planned for the instruction:
\* a big integer comparison, or a bind of the object into a replaced one.
C21_MergeDisagreement ==
    Applied =>
        \A a \in 1..NumAllocs :
            MergeDisagreement(a) =>
                /\ Irreplaceable(a)
                /\ \A b \in 1..Sh.nb : \A k \in 1..Len(prog[b]) :
                    (OnAllocation(prog[b][k], a) /\ ~PlannedByOther(prog[b][k].id, a))
                        => Verbatim(b, prog[b][k])

\* The pass has applied its transformations to a graph in which an object
\* was created before a branch, written in one arm only, and read, written
\* or aliased after the join.
C21_Witness ==
    /\ Applied
    /\ \E a \in 1..NumAllocs :
        /\ MergeDisagreement(a)
        /\ \E k \in 1..Len(prog[Sh.nb]) :
            /\ OnAllocation(prog[Sh.nb][k], a)
            /\ prog[Sh.nb][k].op \in {"set", "sp_get_o", "sp_get_i64", "sp_bind_o",
                                      "sp_bind_i64"}
----------------------------------------------------------------------------
(* The facts of the graph during analysis *)

\* The step analyzes an instruction and leaves the facts of every register
\* as the graph with that instruction has them before the pass.
FactsKept ==
    \E c \in Candidates(family, Sh, CurBB) :
        /\ prog' = [prog EXCEPT ![CurBB] = Append(@, NewIns(CurBB, c))]
        /\ g'.facts = WithInstruction(St, CurBB, c).g.facts

\* C22: analysis never changes the facts of a register of the graph (its
\* known type, its flags, its allocation); what it learns goes to the
\* shadow facts only.
C22_AnalysisKeepsFacts == [][AnalyzeIns => FactsKept]_vars

\* Analysis returned without finding anything to replace, or bailed out at a
\* block with a predecessor not yet seen, and a register of the graph has
\* facts that name a tracked allocation.
C22_Witness ==
    /\ Done
    /\ ret = 0
    /\ \E r \in DOMAIN g.facts : g.facts[r].allocation # 0
----------------------------------------------------------------------------
(* Cycles among escape dependencies *)

\* The graph has no block with a predecessor later in reverse postorder.
LoopFree == \A b \in 1..Sh.nb : \A k \in 1..Len(Sh.pred[b]) :
                rpo_idx(Sh, Sh.pred[b][k]) < rpo_idx(Sh, b)

\* The allocations a's escape_dependencies name.
DependenciesOf(a) ==
    {gs.tracked_allocations[a].escape_dependencies[k] :
        k \in 1..Len(gs.tracked_allocations[a].escape_dependencies)}

\* C23: in a graph without loops no allocation reaches itself over
\* escape_dependencies, whatever object binds and big integer operations
\* analysis has met.
C23_AcyclicDependencies ==
    LoopFree =>
        \A a \in 1..NumAllocs :
            a \notin EscapeReach(gs.tracked_allocations, DependenciesOf(a), NumAllocs)

\* Analysis of a graph without loops has recorded an allocation among its
\* own escape dependencies, directly or through another allocation.
C23_Witness ==
    /\ LoopFree
    /\ phase = "analyze"
    /\ \E a \in 1..NumAllocs :
        a \in EscapeReach(gs.tracked_allocations, DependenciesOf(a), NumAllocs)
----------------------------------------------------------------------------
(* Big integer comparisons *)

\* analyze's instruction loop meets a big integer comparison whose operand
\* types are known.
MeetsRelational ==
    /\ phase = "analyze" /\ phase' = "analyze" /\ pos' = pos
    /\ Len(prog'[CurBB]) = Len(prog[CurBB]) + 1
    /\ Last(prog'[CurBB]).op = "eq_I"
    /\ are_types_known(St, Last(prog'[CurBB]), 2, 3)

\* How the record of a comparison treats operand o: the offset of the big
\* integer in o's type is always recorded; an operand that aliases a tracked
\* allocation is given that allocation's big integer register and names the
\* allocation, any other a fresh hypothetical register and no allocation.
OperandPlanned(o, hyp, off, dep) ==
    /\ off = MVM_p6opaque_get_bigint_offset(get_facts(St, o).ktype)
    /\ off # 0
    /\ IF TrackedInput(o) # 0
       THEN /\ dep = TrackedInput(o)
            /\ hyp = find_bigint_register(St, dep)
            /\ gs'.tracked_allocations[dep].read
       ELSE /\ dep = 0
            /\ hyp \notin AllHypRegs([gs |-> gs', g |-> g'])
            /\ hyp >= gs.latest_hypothetical_reg_idx
            /\ hyp < gs'.latest_hypothetical_reg_idx

RelationalPlanned ==
    [][MeetsRelational =>
        LET ins == Last(prog'[CurBB])
            t == Last(gs'.trans)
        IN /\ Len(gs'.trans) = Len(gs.trans) + 1
           /\ Last(gs'.bb_states[CurBB].transformations) = Len(gs'.trans)
           /\ t.transform = "DECOMPOSE_BIGINT_REL" /\ t.ins = ins.id
           /\ t.allocation = 0
           /\ OperandPlanned(ins.operands[2], t.hypothetical_reg_idx_a,
                             t.obtain_offset_a, t.dep_a)
           /\ OperandPlanned(ins.operands[3], t.hypothetical_reg_idx_b,
                             t.obtain_offset_b, t.dep_b)
           /\ (t.dep_a = 0 /\ t.dep_b = 0)
                => t.hypothetical_reg_idx_a # t.hypothetical_reg_idx_b]_vars

\* The planned comparison reads the operand's hypothetical register.
Unboxed(dep) == dep # 0 /\ ~Irreplaceable(dep)

\* What applying the record of a comparison does to its block: the
\* instruction becomes the register comparison; an operand whose allocation
\* was tracked and is replaceable is the current version of the concrete
\* register of its hypothetical register, with nothing inserted for it; any
\* other operand is read from the object the comparison had as operand, at
\* the recorded offset, by an sp_get_bi inserted right before the comparison.
RelationalApplied ==
    [][(/\ phase = "apply" /\ tix <= Len(CurTransformations)
        /\ CurT.transform = "DECOMPOSE_BIGINT_REL") =>
        LET old == g.code[CurBB]
            new == g'.code[CurBB]
            p == PosOf(new, CurT.ins)
            was == old[PosOf(old, CurT.ins)]
            loads == (IF Unboxed(CurT.dep_a) THEN 0 ELSE 1)
                        + (IF Unboxed(CurT.dep_b) THEN 0 ELSE 1)
            Input(k, dep, hyp, off) ==
                IF Unboxed(dep)
                THEN /\ new[p].operands[k] = CurrentReg(St, gs.attr_regs[hyp + 1])
                     /\ \A j \in 1..Len(new) :
                            new[j].id \notin IdsOf(old) => new[j].operands[2] # was.operands[k]
                ELSE \E j \in (p - loads)..(p - 1) :
                        /\ new[j].id \notin IdsOf(old)
                        /\ new[j].op = "sp_get_bi"
                        /\ new[j].operands = <<new[p].operands[k], was.operands[k], Lit(off)>>
                        /\ new[p].operands[k].orig >= Len(g.versions)
        IN /\ Len(new) = Len(old) + loads
           /\ Keep(new, IdsOf(old) \ {CurT.ins}) = Keep(old, IdsOf(old) \ {CurT.ins})
           /\ new[p].op = CurT.replace_op
           /\ new[p].operands[1] = was.operands[1]
           /\ Input(2, CurT.dep_a, CurT.hypothetical_reg_idx_a, CurT.obtain_offset_a)
           /\ Input(3, CurT.dep_b, CurT.hypothetical_reg_idx_b, CurT.obtain_offset_b)]_vars

\* C24: a big integer comparison with known operand types is planned with a
\* hypothetical register and the offset of the big integer for each of its
\* two operands.  Applied, each operand by itself is the hypothetical
\* register exactly when it aliased a tracked allocation at analysis and
\* that allocation is still replaceable; otherwise an sp_get_bi from the
\* object at the recorded offset is inserted right before the comparison.
C24_RelationalDecomposition ==
    /\ RelationalPlanned
    /\ RelationalApplied

\* A comparison of a replaced big integer with a boxed one was applied: the
\* first operand is read from its register, the second is loaded.
C24_Witness ==
    /\ Applied
    /\ \E t \in 1..Len(gs.trans) : \E b \in 1..Sh.nb :
        /\ gs.trans[t].transform = "DECOMPOSE_BIGINT_REL"
        /\ Unboxed(gs.trans[t].dep_a)
        /\ gs.trans[t].dep_b = 0
        /\ PosOf(g.code[b], gs.trans[t].ins) > 1
        /\ g.code[b][PosOf(g.code[b], gs.trans[t].ins)].op = "sp_eq_bi"
        /\ g.code[b][PosOf(g.code[b], gs.trans[t].ins) - 1].op = "sp_get_bi"
----------------------------------------------------------------------------
(* Attribute reads and writes of a replaced object *)

\* The pass applies a read or a write of an attribute of a replaceable
\* allocation.
AppliesAttr(kind) ==
    /\ phase = "apply" /\ tix <= Len(CurTransformations)
    /\ CurT.transform = kind
    /\ ~Irreplaceable(CurT.allocation)

\* The concrete register of the attribute the instruction addresses.
AttrRegOf(a, ins, lit) ==
    gs.attr_regs[attribute_offset_to_reg(St, a, ins.operands[lit].orig - sizeof_MVMObject) + 1]

\* The step removes the transformation's instruction and nothing else.
Deletes ==
    /\ g'.code[CurBB] = Keep(g.code[CurBB], IdsOf(g.code[CurBB]) \ {CurT.ins})
    /\ Len(g'.code[CurBB]) = Len(g.code[CurBB]) - 1
    /\ g'.versions = g.versions

\* The step makes the transformation's instruction a set with these operands
\* and changes no other instruction.
BecomesSet(operands) ==
    LET old == g.code[CurBB]
        p == PosOf(old, CurT.ins)
    IN g'.code[CurBB] = [old EXCEPT ![p] = [old[p] EXCEPT !.op = "set",
                                                         !.operands = operands]]

ReadApplied ==
    [][AppliesAttr("GETATTR_TO_SET") =>
        LET was == g.code[CurBB][PosOf(g.code[CurBB], CurT.ins)]
            r == AttrRegOf(CurT.allocation, was, 3)
        IN IF CurT.target_allocation # 0 /\ ~Irreplaceable(CurT.target_allocation)
           THEN Deletes
           ELSE /\ BecomesSet(<<was.operands[1], Reg(r, g.versions[r + 1])>>)
                /\ g'.versions = g.versions]_vars

WriteApplied ==
    [][AppliesAttr("BINDATTR_TO_SET") =>
        LET was == g.code[CurBB][PosOf(g.code[CurBB], CurT.ins)]
            r == AttrRegOf(CurT.allocation, was, 2)
        IN IF CurT.target_allocation # 0 /\ ~Irreplaceable(CurT.target_allocation)
           THEN Deletes
           ELSE /\ BecomesSet(<<Reg(r, g.versions[r + 1] + 1), was.operands[3]>>)
                /\ g'.versions = [g.versions EXCEPT ![r + 1] = @ + 1]]_vars

\* The allocation a read or a write of an attribute involves besides its
\* container is the tracked allocation read out or bound in, if any.
OtherInvolved ==
    \A t \in 1..Len(gs.trans) :
        gs.trans[t].transform \in {"GETATTR_TO_SET", "BINDATTR_TO_SET"} =>
            LET ins == ProgIns(gs.trans[t].ins)
                o == IF ins.op \in BindOps THEN ins.operands[3] ELSE ins.operands[1]
            IN gs.trans[t].target_allocation # 0 =>
                /\ ins.op \in {"sp_bind_o", "sp_get_o"}
                /\ g.facts[RKey(o)].allocation = gs.trans[t].target_allocation

\* C25: applied for a replaceable container, a read or a write of an
\* attribute is deleted when the allocation read out or bound in is
\* replaceable too; otherwise the read becomes a set from the current
\* version of the attribute's concrete register and the write a set into a
\* new version of it.
C25_AttributeToSet ==
    /\ ReadApplied
    /\ WriteApplied
    /\ []OtherInvolved

\* A replaced object bound into a replaced object: the bind was just deleted.
C25_Witness ==
    /\ phase = "apply"
    /\ last # 0
    /\ gs.trans[last].transform = "BINDATTR_TO_SET"
    /\ ~Irreplaceable(gs.trans[last].allocation)
    /\ gs.trans[last].target_allocation \notin {0, gs.trans[last].allocation}
    /\ ~Irreplaceable(gs.trans[last].target_allocation)
    /\ gs.trans[last].ins \notin IdsOf(g.code[CurBB])
----------------------------------------------------------------------------
(* Versions of the concrete attribute registers *)

\* The operand positions the instruction reads, in the graph given or
\* transformed.
ReadsOf(ins) ==
    CASE ins.op \in {"sp_add_bi", "sp_eq_bi"} -> {2, 3}
      [] ins.op = "sp_get_bi" -> {2}
      [] ins.op \in BindOps -> {1, 3}
      [] OTHER -> ReadPositions(ins)

\* The instruction writes its first operand.
WritesFirst(ins) ==
    ins.op \in {"set", "sp_fastcreate", "sp_get_i64", "sp_get_o", "sp_get_bi", "sp_add_bi",
                "sp_eq_bi", "add_I", "eq_I", "PHI", "sp_guardtype", "sp_guardconc"}

\* The concrete registers of the attributes of the replaced allocations.
AttributeRegisters ==
    UNION {{gs.attr_regs[h + 1] : h \in HypRegsOf(St, a)} :
            a \in {x \in 1..NumAllocs : ~Irreplaceable(x)}} \ {0}

RECURSIVE PathCode(_, _)
PathCode(path, k) ==
    IF k > Len(path) THEN <<>> ELSE g.code[path[k]] \o PathCode(path, k + 1)

\* The instructions along the path that write register orig before position k.
WritersBefore(seq, k, orig) ==
    {j \in 1..(k - 1) : WritesFirst(seq[j]) /\ seq[j].operands[1].orig = orig}

Latest(S) == CHOOSE j \in S : \A m \in S : m <= j

\* Along the path every read of a concrete attribute register names the
\* version its most recent writer on the path wrote.
VersionsAgree(seq) ==
    \A k \in 1..Len(seq) : \A i \in ReadsOf(seq[k]) :
        (seq[k].operands[i].t = "reg" /\ seq[k].operands[i].orig \in AttributeRegisters) =>
            LET W == WritersBefore(seq, k, seq[k].operands[i].orig)
            IN W # {} => seq[Latest(W)].operands[1].i = seq[k].operands[i].i

\* C26: in the transformed graph, along every path from the entry, each
\* read of an attribute's concrete register (by a rewritten read, a register
\* op or a bind of a materialization) names the version the most recent
\* write on that path gave it, also where the attribute is written in both
\* arms of a branch and read after the join.
C26_VersionsOnPath ==
    Applied => \A path \in Sh.paths : VersionsAgree(PathCode(path, 1))

\* An attribute written in both arms of a branch was read or materialized
\* after the join, and the pass has rewritten the writes.
C26_Witness ==
    /\ Applied
    /\ Sh.nb = 4
    /\ \E r \in AttributeRegisters :
        /\ \A b \in {2, 3} : \E k \in 1..Len(g.code[b]) :
                g.code[b][k].op = "set" /\ g.code[b][k].operands[1].orig = r
        /\ \E k \in 1..Len(g.code[4]) : \E i \in ReadsOf(g.code[4][k]) :
                g.code[4][k].operands[i].t = "reg" /\ g.code[4][k].operands[i].orig = r
----------------------------------------------------------------------------
(* A decomposition whose input became irreplaceable *)

\* The pass is about to apply the decomposition of a big integer op whose
\* result allocation is replaceable.
AppliesDecomposition ==
    /\ phase = "apply" /\ tix <= Len(CurTransformations)
    /\ CurT.transform = "DECOMPOSE_BIGINT_BI"
    /\ ~Irreplaceable(CurT.allocation)

\* The hypothetical registers of tracked inputs the decomposition is about
\* to read whose allocation is irreplaceable.
IrreplaceableInputs ==
    {h \in HypsRead(St, CurBB, CurT) : Irreplaceable(OwnerOfHyp(h))}

\* C27: the decomposition applied for a replaceable result reads the
\* hypothetical big integer register of no input whose allocation is
\* irreplaceable; the value of such an input is loaded from the object, so
\* no register the decomposition reads is without a concrete register.
C27_IrreplaceableInputLoaded ==
    AppliesDecomposition =>
        /\ IrreplaceableInputs = {}
        /\ \A h \in HypsRead(St, CurBB, CurT) : gs.attr_regs[h + 1] # 0

\* The pass is about to apply the decomposition of an op whose result is
\* replaceable and whose tracked input became irreplaceable after the op
\* was analyzed.
C27_Witness ==
    /\ AppliesDecomposition
    /\ IrreplaceableInputs # {}
----------------------------------------------------------------------------
(* The table of tracked registers *)

\* The registers whose facts name a tracked allocation.
AliasingRegisters == {r \in DOMAIN g.facts : g.facts[r].allocation # 0}

\* The register is in the tracked-register table.
InTrackedRegisters(r) ==
    \E k \in 1..Len(gs.tracked_registers) :
        /\ RKey(gs.tracked_registers[k].reg) = r
        /\ gs.tracked_registers[k].allocation = g.facts[r].allocation

\* C28: every register analysis has attached a tracked allocation to (the
\* result of an allocation or of a big integer op, the destination of a set,
\* of an eliminated guard, of a single-input phi or of an attribute read
\* that aliases one) is in the tracked-register table, which is what the
\* planning of deopt materializations walks.
C28_TrackedRegisters ==
    \A r \in AliasingRegisters : InTrackedRegisters(r)

\* A register that aliases a tracked allocation and is needed after a deopt
\* point is missing from the tracked-register table.
C28_Witness ==
    \E r \in AliasingRegisters :
        /\ ~InTrackedRegisters(r)
        /\ g.facts[r].deopt_users # {}
----------------------------------------------------------------------------
(* Phis that merge *)

\* analyze's instruction loop meets a phi with two or more inputs.
MeetsMergingPhi ==
    /\ phase = "analyze" /\ phase' = "analyze" /\ pos' = pos
    /\ Len(prog'[CurBB]) = Len(prog[CurBB]) + 1
    /\ Last(prog'[CurBB]).op = "PHI"
    /\ Len(Last(prog'[CurBB]).operands) >= 3

\* The allocations the inputs of the phi alias that are tracked when the phi
\* is met: replaceable and not materialized in the current block.
TrackedPhiInputs(ins) ==
    {TrackedInput(ins.operands[i]) : i \in 2..Len(ins.operands)} \ {0}

\* C29: a phi with two or more inputs makes every allocation an input
\* aliases irreplaceable if it is replaceable and not materialized in the
\* block, together with all that is reachable from it over the escape
\* dependencies; it changes the flag of no other allocation and plans no
\* transformation, so no materialization.
C29_PhiInputsIrreplaceable ==
    [][MeetsMergingPhi =>
        LET marked == EscapeReach(gs.tracked_allocations,
                                  TrackedPhiInputs(Last(prog'[CurBB])), NumAllocs)
        IN /\ \A a \in 1..NumAllocs :
                gs'.tracked_allocations[a].irreplaceable
                    = (Irreplaceable(a) \/ a \in marked)
           /\ gs'.trans = gs.trans
           /\ gs'.bb_states = gs.bb_states]_vars

\* The phi at the join has an input that aliases an object with another
\* object bound into it: both are irreplaceable and nothing is planned for
\* the phi.
C29_Witness ==
    /\ phase = "analyze"
    /\ Len(prog[CurBB]) > 0
    /\ Last(prog[CurBB]).op = "PHI"
    /\ Len(Last(prog[CurBB]).operands) >= 3
    /\ \E i \in 2..Len(Last(prog[CurBB]).operands) :
        LET a == g.facts[RKey(Last(prog[CurBB]).operands[i])].allocation
        IN /\ a # 0
           /\ DependentOn(a) # {a}
           /\ \A d \in DependentOn(a) : Irreplaceable(d)
           /\ \A t \in 1..Len(gs.trans) : gs.trans[t].transform # "MATERIALIZE"
----------------------------------------------------------------------------
(* Binds into an object that is not tracked *)

\* analyze's instruction loop meets a bind of this kind whose target aliases
\* no allocation, an irreplaceable one, or one materialized in the block.
MeetsEscapedBind(op) ==
    /\ phase = "analyze" /\ phase' = "analyze" /\ pos' = pos
    /\ Len(prog'[CurBB]) = Len(prog[CurBB]) + 1
    /\ Last(prog'[CurBB]).op = op
    /\ TrackedInput(Last(prog'[CurBB]).operands[1]) = 0

\* The step planned a materialization of allocation a ahead of the
\* instruction, for the register the instruction reads it through.
MaterializedFor(a, ins, o) ==
    /\ Len(gs'.bb_states[CurBB].alloc_state[a].materializations) > 0
    /\ \E t \in (Len(gs.trans) + 1)..Len(gs'.trans) :
        /\ gs'.trans[t].transform = "MATERIALIZE"
        /\ gs'.trans[t].allocation = a
        /\ gs'.trans[t].prior_to = ins.id
        /\ \E k \in 1..Len(gs'.trans[t].targets) :
                ~gs'.trans[t].targets[k].is_hypothetical /\ gs'.trans[t].targets[k].reg = o
        /\ Contains(gs'.bb_states[CurBB].transformations, t)

\* An object bound into an object that is not tracked needs a real object:
\* if it aliases a tracked allocation, the allocation is materialized ahead
\* of the bind or becomes irreplaceable, never both.
ObjectBindEscapes ==
    [][MeetsEscapedBind("sp_bind_o") =>
        LET ins == Last(prog'[CurBB])
            a == TrackedInput(ins.operands[3])
        IN IF a # 0
           THEN (gs'.tracked_allocations[a].irreplaceable
                    /\ Len(gs'.trans) = Len(gs.trans))
                \/ (~gs'.tracked_allocations[a].irreplaceable
                    /\ MaterializedFor(a, ins, ins.operands[3]))
           ELSE /\ Len(gs'.trans) = Len(gs.trans)
                /\ gs'.tracked_allocations = gs.tracked_allocations
                /\ gs'.bb_states = gs.bb_states]_vars

\* A bind of an int into an object that is not tracked plans nothing and
\* changes the state of no allocation.
ScalarBindPlansNothing ==
    [][MeetsEscapedBind("sp_bind_i64") =>
        /\ Len(gs'.trans) = Len(gs.trans)
        /\ gs'.tracked_allocations = gs.tracked_allocations
        /\ gs'.bb_states = gs.bb_states]_vars

\* C30: an object bind whose target aliases no tracked allocation (none at
\* all, an irreplaceable one, or one materialized in the block) makes the
\* bound source require a real object: a tracked source is materialized
\* ahead of the bind or marked irreplaceable.  A bind of another kind into
\* such a target plans no transformation and changes no allocation.
C30_BindIntoEscaped ==
    /\ ObjectBindEscapes
    /\ ScalarBindPlansNothing

\* A tracked object was just bound into an object materialized earlier in
\* the block, and a materialization of it was planned ahead of the bind.
C30_Witness ==
    /\ phase = "analyze"
    /\ Len(prog[CurBB]) > 0
    /\ Last(prog[CurBB]).op = "sp_bind_o"
    /\ LET ins == Last(prog[CurBB])
           x == g.facts[RKey(ins.operands[1])].allocation
           a == g.facts[RKey(ins.operands[3])].allocation
       IN /\ x # 0 /\ a # 0 /\ a # x
          /\ ~Irreplaceable(x) /\ ~Irreplaceable(a)
          /\ \E t \in 1..Len(gs.trans) :
                /\ gs.trans[t].transform = "MATERIALIZE"
                /\ gs.trans[t].allocation = a
                /\ gs.trans[t].prior_to = ins.id
          /\ \E t \in 1..Len(gs.trans) :
                /\ gs.trans[t].transform = "MATERIALIZE"
                /\ gs.trans[t].allocation = x
                /\ gs.trans[t].prior_to # ins.id
----------------------------------------------------------------------------
(* Vivifying reads *)

VivifyingReads == {"sp_getvt_o", "sp_getvc_o"}

Vivifications == {"VIVIFY_TYPE", "VIVIFY_CONCRETE"}

\* analyze's instruction loop meets a vivifying read.
MeetsVivify ==
    /\ phase = "analyze" /\ phase' = "analyze" /\ pos' = pos
    /\ Len(prog'[CurBB]) = Len(prog[CurBB]) + 1
    /\ Last(prog'[CurBB]).op \in VivifyingReads

\* Attribute k of allocation a is marked written in block b of the state.
Written(gsx, b, a, k) ==
    /\ a <= Len(gsx.bb_states[b].alloc_state)
    /\ gsx.bb_states[b].alloc_state[a].used # <<>>
    /\ gsx.bb_states[b].alloc_state[a].used[k] = 1

\* What one vivifying read plans.
VivifyPlanned ==
    [][MeetsVivify =>
        LET ins == Last(prog'[CurBB])
            a == TrackedInput(ins.operands[2])
            k == MVM_p6opaque_offset_to_attr_idx(Alloc(St, a).type,
                    ins.operands[3].orig - sizeof_MVMObject)
            t == Last(gs'.trans)
        IN IF a # 0
           THEN /\ Len(gs'.trans) = Len(gs.trans) + 1
                /\ gs'.bb_states[CurBB].transformations
                        = Append(gs.bb_states[CurBB].transformations, Len(gs'.trans))
                /\ t.allocation = a /\ t.ins = ins.id
                /\ t.hypothetical_reg_idx = Alloc(St, a).hypothetical_attr_reg_idxs[k]
                /\ IF Written(gs, CurBB, a, k)
                   THEN t.transform = "GETATTR_TO_SET"
                   ELSE /\ t.transform = (IF ins.op = "sp_getvc_o" THEN "VIVIFY_CONCRETE"
                                          ELSE "VIVIFY_TYPE")
                        /\ t.type_sslot = ins.operands[4].orig
                /\ Written(gs', CurBB, a, k)
           ELSE /\ Len(gs'.trans) = Len(gs.trans)
                /\ \A b \in 1..Sh.nb :
                    gs'.bb_states[b].transformations = gs.bb_states[b].transformations]_vars

\* The instructions of the given graph along a path.
RECURSIVE ProgPath(_, _)
ProgPath(path, k) ==
    IF k > Len(path) THEN <<>> ELSE prog[path[k]] \o ProgPath(path, k + 1)

\* The transformations planned for a vivifying read.
ReadPlans(id) ==
    {t \in 1..Len(gs.trans) :
        /\ gs.trans[t].ins = id
        /\ gs.trans[t].transform \in Vivifications \cup {"GETATTR_TO_SET"}}

\* The instruction binds or vivifies the attribute at this offset of an
\* object aliasing allocation a.
Initializes(ins, a, off) ==
    \/ /\ ins.op = "sp_bind_o"
       /\ get_facts(St, ins.operands[1]).allocation = a
       /\ ins.operands[2] = off
    \/ /\ ins.op \in VivifyingReads
       /\ get_facts(St, ins.operands[2]).allocation = a
       /\ ins.operands[3] = off

\* Along every path a planned vivifying read is planned as a vivification
\* exactly when nothing earlier on the path bound or vivified the attribute.
FirstReadVivifies ==
    \A path \in Sh.paths :
        LET seq == ProgPath(path, 1)
        IN \A i \in 1..Len(seq) :
            seq[i].op \in VivifyingReads =>
                /\ Cardinality(ReadPlans(seq[i].id)) <= 1
                /\ \A t \in ReadPlans(seq[i].id) :
                    gs.trans[t].transform \in Vivifications
                        <=> ~\E j \in 1..(i - 1) :
                                Initializes(seq[j], gs.trans[t].allocation,
                                            seq[i].operands[3])

\* C31: a vivifying read of an attribute of a tracked allocation is planned
\* as a read of the attribute's register when the block's state marks the
\* attribute written, and otherwise as a vivification of the kind of its
\* opcode, which marks the attribute written; along every path exactly the
\* first of the reads of an attribute nothing bound before is planned as a
\* vivification.
C31_VivifyOnce ==
    /\ VivifyPlanned
    /\ []FirstReadVivifies

\* An attribute was vivified in both arms of a diamond and read again after
\* the join, where the read was planned as a plain read.
C31_Witness ==
    /\ Applied /\ family = "viv"
    /\ \E a \in 1..NumAllocs :
        /\ ~Irreplaceable(a)
        /\ \A b \in {2, 3} : \E k \in 1..Len(prog[b]) : \E t \in ReadPlans(prog[b][k].id) :
                gs.trans[t].transform \in Vivifications /\ gs.trans[t].allocation = a
        /\ \E k \in 1..Len(prog[4]) : \E t \in ReadPlans(prog[4][k].id) :
                /\ prog[4][k].op \in VivifyingReads
                /\ gs.trans[t].transform = "GETATTR_TO_SET" /\ gs.trans[t].allocation = a
----------------------------------------------------------------------------
(* Materialization of the objects an object's attributes refer to *)

\* The allocation the shadow facts of hypothetical register h name when the
\* step begins, 0 if there are none.
NamedBy(h) ==
    IF get_shadow_facts_h_pos(St, h) = 0 THEN 0
    ELSE gs.shadow_facts[get_shadow_facts_h_pos(St, h)].facts.allocation

\* The materializations the step plans.
NewMaterializations ==
    {t \in (Len(gs.trans) + 1)..Len(gs'.trans) : gs'.trans[t].transform = "MATERIALIZE"}

\* The place of transformation t in the plan of the current block after the
\* step, 0 if it is not in it.
PlanPos(t) ==
    IF Contains(gs'.bb_states[CurBB].transformations, t)
    THEN IndexOf(gs'.bb_states[CurBB].transformations, t)
    ELSE 0

\* Where the step plans a materialization t, it plans one for every
\* allocation x an attribute of t's allocation names that is tracked and
\* was not materialized in the block before t: into the attribute's
\* hypothetical register, ahead of the same instruction, and before t in the
\* block's plan.
AttributesMaterialized ==
    [][(phase = "analyze" /\ phase' = "analyze" /\ pos' = pos) =>
        \A t \in NewMaterializations :
            \A h \in HypRegsOf(St, gs'.trans[t].allocation) :
                (/\ allocation_tracked(St, CurBB, NamedBy(h))
                 /\ ~\E v \in NewMaterializations :
                        v <= t /\ gs'.trans[v].allocation = NamedBy(h)) =>
                    \E u \in NewMaterializations :
                        /\ u > t
                        /\ gs'.trans[u].allocation = NamedBy(h)
                        /\ gs'.trans[u].targets =
                            <<[is_hypothetical |-> TRUE, reg |-> Reg(0, 0), hyp_reg |-> h]>>
                        /\ gs'.trans[u].prior_to = gs'.trans[t].prior_to
                        /\ PlanPos(u) # 0 /\ PlanPos(t) # 0
                        /\ PlanPos(u) < PlanPos(t)]_vars

\* Materialization u creates the object an attribute of the allocation of
\* materialization t refers to.
AttributeOf(u, t) ==
    /\ gs.trans[t].transform = "MATERIALIZE" /\ gs.trans[u].transform = "MATERIALIZE"
    /\ Len(gs.trans[t].targets) > 0
    /\ gs.trans[u].targets[1].is_hypothetical
    /\ gs.trans[u].targets[1].hyp_reg \in HypRegsOf(St, gs.trans[t].allocation)
    /\ gs.trans[u].prior_to = gs.trans[t].prior_to
    /\ gs.trans[u].used_bb = gs.trans[t].used_bb

\* In the transformed graph the object of the attribute is created into the
\* attribute's register before the container is, and so before every bind of
\* the container's materialization that stores the register into it. The bind
\* is emitted only where the attribute was written on the way to the block.
CreatedBeforeBound ==
    Applied =>
        \A t, u \in 1..Len(gs.trans) :
            (/\ AttributeOf(u, t)
             /\ ~Irreplaceable(gs.trans[t].allocation)
             /\ ~Irreplaceable(gs.trans[u].allocation)) =>
                LET code == g.code[gs.trans[t].used_bb]
                    r == gs.attr_regs[gs.trans[u].targets[1].hyp_reg + 1]
                IN \E p, c \in 1..Len(code) :
                    /\ p < c
                    /\ code[p].id \notin OriginalIds
                    /\ code[p].op = "sp_fastcreate"
                    /\ code[p].operands[1].orig = r
                    /\ SpeshSlots[code[p].operands[3].orig]
                            = Alloc(St, gs.trans[u].allocation).type
                    /\ code[c].id \notin OriginalIds
                    /\ code[c].op = "sp_fastcreate"
                    /\ SpeshSlots[code[c].operands[3].orig]
                            = Alloc(St, gs.trans[t].allocation).type
                    /\ \A q \in 1..Len(code) :
                        (/\ code[q].id \notin OriginalIds
                         /\ code[q].op = "sp_bind_o"
                         /\ code[q].operands[1] = code[c].operands[1]
                         /\ code[q].operands[3].orig = r) =>
                            /\ c < q
                            /\ code[q].operands[3] = code[p].operands[1]

\* C32: a materialization of an object whose reference attributes name
\* tracked allocations comes with a materialization of each of them, and of
\* theirs in turn, into the hypothetical register of the attribute; these
\* stand before the container's own materialization in the block's plan, and
\* in the transformed graph the attribute's object is created before the
\* container's bind reads it.
C32_AttributesMaterialized ==
    /\ AttributesMaterialized
    /\ []CreatedBeforeBound

\* A chain of three objects was built and the outermost escaped: the
\* materialization of the outermost brought that of the middle one, which
\* brought that of the innermost, and all three were applied.
C32_Witness ==
    /\ Applied /\ family = "nest"
    /\ \E t, u, w \in 1..Len(gs.trans) :
        /\ AttributeOf(u, t) /\ AttributeOf(w, u)
        /\ ~gs.trans[t].targets[1].is_hypothetical
        /\ Cardinality({gs.trans[t].allocation, gs.trans[u].allocation,
                        gs.trans[w].allocation}) = 3
        /\ \A x \in {t, u, w} : ~Irreplaceable(gs.trans[x].allocation)
        /\ LET code == g.code[gs.trans[t].used_bb]
               r == gs.attr_regs[gs.trans[u].targets[1].hyp_reg + 1]
           IN \E q \in 1..Len(code) :
               /\ code[q].id \notin OriginalIds
               /\ code[q].op = "sp_bind_o"
               /\ code[q].operands[1] = gs.trans[t].targets[1].reg
               /\ code[q].operands[3].orig = r
----------------------------------------------------------------------------
(* Targets of a materialization *)

Materializations(gsx) ==
    {t \in 1..Len(gsx.trans) : gsx.trans[t].transform = "MATERIALIZE"}

\* The registers among the targets, in list order.
ConcreteTargets(ts) == SelectSeq(ts, LAMBDA x : ~x.is_hypothetical)

\* No register, taken as original and version, is listed twice.
NoRegisterTwice(ts) ==
    \A i, j \in 1..Len(ConcreteTargets(ts)) :
        ConcreteTargets(ts)[i].reg = ConcreteTargets(ts)[j].reg => i = j

TargetsWellFormed ==
    \A t \in Materializations(gs) :
        /\ Len(gs.trans[t].targets) >= 1
        /\ NoRegisterTwice(gs.trans[t].targets)

\* A step keeps the targets a materialization has: new ones are put in
\* front of them.
TargetsOnlyGrow ==
    [][\A t \in Materializations(gs) :
        /\ t \in Materializations(gs')
        /\ Len(gs'.trans[t].targets) >= Len(gs.trans[t].targets)
        /\ SubSeq(gs'.trans[t].targets,
                  Len(gs'.trans[t].targets) - Len(gs.trans[t].targets) + 1,
                  Len(gs'.trans[t].targets)) = gs.trans[t].targets]_vars

\* C33: a planned materialization has at least one target from the step
\* that plans it, later steps only add targets, and no register (original
\* and version) is among them twice, whatever instructions read aliases of
\* the allocation in the planning block or the blocks after it.
C33_MaterializationTargets ==
    /\ []TargetsWellFormed
    /\ TargetsOnlyGrow

\* The instructions of the planning block, from the one the materialization
\* stands before, that read a register aliasing its allocation.
ReadersOfMaterialized(t) ==
    LET code == prog[gs.trans[t].used_bb]
    IN {k \in 1..Len(code) :
            /\ k >= PosOf(code, gs.trans[t].prior_to)
            /\ \E i \in ReadPositions(code[k]) :
                    get_facts(St, code[k].operands[i]).allocation = gs.trans[t].allocation}

\* A materialization has two registers as targets and more instructions
\* than that read the object it makes: one read a register already listed.
C33_Witness ==
    \E t \in Materializations(gs) :
        /\ Len(ConcreteTargets(gs.trans[t].targets)) >= 2
        /\ PosOf(prog[gs.trans[t].used_bb], gs.trans[t].prior_to) # 0
        /\ Cardinality(ReadersOfMaterialized(t)) > Len(gs.trans[t].targets)
----------------------------------------------------------------------------
(* The branch test *)

\* The sum of f over the integers from..to.
RECURSIVE SumOver(_, _, _)
SumOver(f, from, to) ==
    IF from > to THEN 0 ELSE f[from] + SumOver(f, from + 1, to)

\* The branch depth at check, counted from base along the reverse postorder:
\* the extra successors of the blocks from base up to check, less the extra
\* predecessors of the blocks after base up to and including check.
BranchDepth(sh, base, check) ==
    SumOver([i \in 1..sh.nb |-> sh.num_succ[sh.rpo[i]] - 1],
            rpo_idx(sh, base), rpo_idx(sh, check) - 1)
        - SumOver([i \in 1..sh.nb |-> Len(sh.pred[sh.rpo[i]]) - 1],
                  rpo_idx(sh, base) + 1, rpo_idx(sh, check))

InBranchAsDescribed(sh, base, check) ==
    CASE check = base -> FALSE
      [] rpo_idx(sh, check) < rpo_idx(sh, base) -> TRUE
      [] OTHER -> BranchDepth(sh, base, check) # 0

\* C34: in_branch(base, check) is false when check is base, true when check
\* does not come at or after base in the reverse postorder, and otherwise
\* tells whether the extra successors of the blocks before check less the
\* extra predecessors of the blocks after base up to check differ from zero;
\* from the head of a diamond it is true in each arm and false at the join.
C34_InBranch ==
    /\ \A base, check \in 1..Sh.nb :
            in_branch(Sh, base, check) = InBranchAsDescribed(Sh, base, check)
    /\ Sh = Shape("diamond") =>
            /\ in_branch(Sh, 1, 2) /\ in_branch(Sh, 1, 3)
            /\ ~in_branch(Sh, 1, 4)

\* The test decided a materialization: an object of the head of a diamond
\* that was never read and holds no big integer was materialized in an arm,
\* and another such object that escaped at the join became irreplaceable.
C34_Witness ==
    /\ Sh = Shape("diamond")
    /\ \E t \in 1..Len(gs.trans) :
        /\ gs.trans[t].transform = "MATERIALIZE"
        /\ gs.trans[t].used_bb \in {2, 3}
        /\ Alloc(St, gs.trans[t].allocation).allocator_bb = 1
        /\ ~Alloc(St, gs.trans[t].allocation).read
        /\ ~Alloc(St, gs.trans[t].allocation).bigint
    /\ \E a \in 1..NumAllocs : \E k \in 1..Len(prog[4]) :
        /\ Irreplaceable(a)
        /\ Alloc(St, a).allocator_bb = 1
        /\ ~Alloc(St, a).read /\ ~Alloc(St, a).bigint
        /\ prog[4][k].op = "bind_lex"
        /\ get_facts(St, prog[4][k].operands[2]).allocation = a
        /\ \A b \in {2, 3} : \A j \in 1..Len(prog[b]) :
                \A i \in ReadPositions(prog[b][j]) :
                    get_facts(St, prog[b][j].operands[i]).allocation # a
----------------------------------------------------------------------------
(* Termination *)

\* What is left of the pass: the phases ahead, the blocks ahead in the
\* phase, and in the block the instructions the graph may still hold or the
\* transformations not yet applied.
Remaining ==
    << CASE phase = "analyze" -> 2 [] phase = "apply" -> 1 [] OTHER -> 0,
       Sh.nb - pos,
       CASE phase = "analyze" -> FamilyMaxIns(family) - TotalIns(Sh)
         [] phase = "apply" -> Len(CurTransformations) + 1 - tix
         [] OTHER -> 0 >>

\* Lexicographic order on triples of naturals.
Less(x, y) ==
    \/ x[1] < y[1]
    \/ x[1] = y[1] /\ x[2] < y[2]
    \/ x[1] = y[1] /\ x[2] = y[2] /\ x[3] < y[3]

\* Every step of the pass leaves less to do, what is left is never negative,
\* and a step is possible until the pass is done: the pass ends after
\* finitely many steps.
StepsRunOut ==
    /\ [][phase # "done" /\ Less(Remaining', Remaining)]_vars
    /\ [](\A i \in 1..3 : Remaining[i] >= 0)

\* analyze goes through the blocks in reverse postorder, one after the
\* other, marking each seen as it leaves it; it stops before the last block
\* only with the result 0.
BlocksInOrder ==
    [][phase = "analyze" =>
        \/ pos' = pos /\ phase' = "analyze" /\ gs'.seen = gs.seen
        \/ /\ pos' = pos + 1
           /\ ~gs.seen[pos] /\ gs'.seen = [gs.seen EXCEPT ![pos] = TRUE]
           /\ (phase' = "analyze" \/ (phase' = "done" /\ ret' = 0))
        \/ pos = Sh.nb /\ phase' # "analyze"]_vars

\* The allocations reachable from a through escape dependencies, a included.
RECURSIVE Dependents(_, _)
Dependents(S, n) ==
    LET T == S \cup UNION {{Alloc(St, x).escape_dependencies[k] :
                                k \in 1..Len(Alloc(St, x).escape_dependencies)} : x \in S}
    IN IF n = 0 \/ T = S THEN S ELSE Dependents(T, n - 1)

\* From every state mark_irreplaceable returns, having marked what depends
\* on the allocation and emptied the dependency lists it went through, and
\* materialize_attributes returns, having planned no more than one
\* materialization for each allocation.
HelpersReturn ==
    \A a \in 1..NumAllocs :
        /\ \A x \in Dependents({a}, NumAllocs) :
            /\ mark_irreplaceable(St, a).gs.tracked_allocations[x].irreplaceable
            /\ mark_irreplaceable(St, a).gs.tracked_allocations[x].escape_dependencies = <<>>
        /\ phase = "analyze" =>
            LET s1 == materialize_attributes(St, CurBB, 0, a)
            IN /\ Len(s1.gs.trans) <= Len(gs.trans) + NumAllocs
               /\ \A x \in 1..NumAllocs :
                    Cardinality({t \in (Len(gs.trans) + 1)..Len(s1.gs.trans) :
                                    s1.gs.trans[t].allocation = x}) <= 1

\* C35: the pass comes to an end on every graph.  analyze visits the blocks
\* once each in reverse postorder or gives up at the first block with a
\* predecessor not yet seen, and mark_irreplaceable and
\* materialize_attributes return also where the escape dependencies or the
\* attribute references of the allocations form a cycle.
C35_Terminates ==
    /\ StepsRunOut
    /\ BlocksInOrder
    /\ []HelpersReturn

\* The pass ended on a graph in which two objects refer to each other, each
\* bound into the other, and the escape of one was met and reached both.
C35_Witness ==
    /\ Done
    /\ \E a, b \in 1..NumAllocs :
        /\ a # b
        /\ \E h \in HypRegsOf(St, a) : NamedBy(h) = b
        /\ \E h \in HypRegsOf(St, b) : NamedBy(h) = a
        /\ \E t \in Materializations(gs) : gs.trans[t].allocation \in {a, b}
        /\ Irreplaceable(a) /\ Irreplaceable(b)
        /\ Alloc(St, a).escape_dependencies = <<>>
        /\ Alloc(St, b).escape_dependencies = <<>>
----------------------------------------------------------------------------
(* Concrete and synthetic deopt indices *)

\* The transformations planned for block b, in planning order.
PlannedIn(b) == [p \in 1..Len(gs.bb_states[b].transformations) |->
                    gs.trans[gs.bb_states[b].transformations[p]]]

\* The index the deopt users of an instruction are looked up under: that of
\* its synthetic annotation if it has one, else the concrete one.
LookupIdx(ins) == IF ins.ann_synth >= 0 THEN ins.ann_synth ELSE ins.ann_deopt

\* The add-deopt-point at position p of block b was planned at instruction
\* ins of the block: it carries the concrete index of ins, its target is a
\* tracked register listed as deopt user under the lookup index of ins, and
\* it is followed by one add-deopt-usage for each attribute of the
\* allocation, in order, recorded under the lookup index, and by no further
\* one.
PointPlannedAt(b, p, ins) ==
    LET T == PlannedIn(b)
        a == T[p].allocation
        n == get_num_attributes(St, a)
    IN /\ ins.ann_deopt >= 0
       /\ T[p].deopt_point_idx = ins.ann_deopt
       /\ \E i \in 1..Len(gs.tracked_registers) :
            /\ gs.tracked_registers[i].reg.orig = T[p].target_reg
            /\ get_facts(St, gs.tracked_registers[i].reg).allocation = a
            /\ LookupIdx(ins) \in get_facts(St, gs.tracked_registers[i].reg).deopt_users
       /\ p + n <= Len(T)
       /\ \A i \in 1..n :
            /\ T[p + i].transform = "ADD_DEOPT_USAGE"
            /\ T[p + i].allocation = a
            /\ T[p + i].hypothetical_reg_idx = Alloc(St, a).hypothetical_attr_reg_idxs[i]
            /\ T[p + i].deopt_point_idx = LookupIdx(ins)
       /\ (p + n < Len(T) => T[p + n + 1].transform # "ADD_DEOPT_USAGE")

\* The indices of the synthetic annotations of the graph.
SyntheticIndices ==
    UNION {{prog[b][k].ann_synth : k \in {m \in 1..Len(prog[b]) : prog[b][m].ann_synth >= 0}} :
            b \in 1..Sh.nb}

\* C36: every planned add-deopt-point carries the concrete deopt index of
\* an instruction of its block and never a synthetic one; where the
\* instruction has a synthetic annotation its index serves to find the
\* deopt users among the tracked registers and is the index of the
\* add-deopt-usage entries; each add-deopt-point is followed by exactly one
\* add-deopt-usage per attribute of the allocation, and there is no
\* add-deopt-usage besides these.
C36_DeoptIndices ==
    \A b \in 1..Sh.nb :
        LET T == PlannedIn(b)
        IN /\ \A p \in 1..Len(T) :
                T[p].transform = "ADD_DEOPT_POINT" =>
                    /\ T[p].deopt_point_idx \notin SyntheticIndices
                    /\ \E k \in 1..Len(prog[b]) : PointPlannedAt(b, p, prog[b][k])
           /\ \A p \in 1..Len(T) :
                T[p].transform = "ADD_DEOPT_USAGE" =>
                    /\ p > 1
                    /\ T[p - 1].transform \in {"ADD_DEOPT_POINT", "ADD_DEOPT_USAGE"}
                    /\ T[p - 1].allocation = T[p].allocation

\* A guard with a concrete and a synthetic annotation was met while a
\* tracked object with attributes was a deopt user under the synthetic
\* index: the point carries the concrete index, the usages the synthetic
\* one, and both were applied.
C36_Witness ==
    /\ Done /\ ret = 1
    /\ \E b \in 1..Sh.nb : \E p \in 1..Len(PlannedIn(b)) : \E k \in 1..Len(prog[b]) :
        /\ PlannedIn(b)[p].transform = "ADD_DEOPT_POINT"
        /\ prog[b][k].ann_synth >= 0
        /\ PointPlannedAt(b, p, prog[b][k])
        /\ get_num_attributes(St, PlannedIn(b)[p].allocation) >= 2
        /\ ~Irreplaceable(PlannedIn(b)[p].allocation)
        /\ \E d \in 1..Len(g.deopt_point) :
            g.deopt_point[d].deopt_point_idx = prog[b][k].ann_deopt
        /\ \E u \in 1..Len(g.deopt_usages) :
            g.deopt_usages[u].deopt_idx = prog[b][k].ann_synth
----------------------------------------------------------------------------
(* The integer-cache form of a materialization *)

\* The instructions a step put into the current block.
InsertedByStep ==
    SelectSeq(g'.code[CurBB], LAMBDA i : i.id \notin IdsOf(g.code[CurBB]))

\* C37: when a big-integer allocation with a single attribute is
\* materialized, sp_materialize_bi is emitted if and only if the integer
\* cache type index of its type is not negative; with a negative index the
\* object is created by a fastcreate, followed by a takewrite of the big
\* integer attribute if it was written.
C37_IntegerCacheForm ==
    [][(/\ MaterializeStep
        /\ Alloc(St, CurT.allocation).bigint
        /\ get_num_attributes(St, CurT.allocation) = 1) =>
        LET new == InsertedByStep
            ty == Alloc(St, CurT.allocation).type
            attrs == WrittenAttrs(CurT.allocation, CurT.used_bb, 1)
        IN /\ Len(new) >= 1
           /\ IF MVM_intcache_type_index(ty) >= 0
              THEN /\ new[1].op = "sp_materialize_bi"
                   /\ new[1].operands[6].orig = MVM_intcache_type_index(ty)
              ELSE /\ new[1].op = "sp_fastcreate"
                   /\ Len(attrs) = 1 =>
                        Len(new) >= 2 /\ new[2].op = "sp_takewrite_bi"]_vars

\* A boxed big integer of a type without an integer cache index was
\* materialized through sp_materialize_bi, whose cache index operand is -1.
C37_Witness ==
    /\ Applied
    /\ \E k \in 1..Len(g.code[1]) :
        /\ g.code[1][k].op = "sp_materialize_bi"
        /\ MVM_intcache_type_index(SpeshSlots[g.code[1][k].operands[3].orig]) < 0
        /\ g.code[1][k].operands[6].orig = -1
----------------------------------------------------------------------------
(* Hypothetical register indices *)

\* Operand which ("a" or "b") of transformation t took an index from the
\* counter: it is an operand of a decomposition that is not the attribute
\* of a tracked allocation.
TookIndex(t, which) ==
    CASE t.transform = "DECOMPOSE_BIGINT_BI" ->
            IF which = "a" THEN t.obtain_offset_a # 0 ELSE t.obtain_offset_b # 0
      [] t.transform = "DECOMPOSE_BIGINT_REL" ->
            IF which = "a" THEN t.dep_a = 0 ELSE t.dep_b = 0
      [] OTHER -> FALSE

\* The slots an index was handed out to in graph state gsx, each with its
\* index: the attributes of the tracked allocations and the operands above.
HandedOut(gsx) ==
    UNION {{<<"attr", a, i, gsx.tracked_allocations[a].hypothetical_attr_reg_idxs[i]>> :
                i \in 1..Len(gsx.tracked_allocations[a].hypothetical_attr_reg_idxs)} :
            a \in 1..Len(gsx.tracked_allocations)}
    \cup {<<"operand", t, 1, gsx.trans[t].hypothetical_reg_idx_a>> :
            t \in {u \in 1..Len(gsx.trans) : TookIndex(gsx.trans[u], "a")}}
    \cup {<<"operand", t, 2, gsx.trans[t].hypothetical_reg_idx_b>> :
            t \in {u \in 1..Len(gsx.trans) : TookIndex(gsx.trans[u], "b")}}

\* The counter never goes down.
CounterNeverDecreases ==
    [][gs'.latest_hypothetical_reg_idx >= gs.latest_hypothetical_reg_idx]_vars

\* No two slots share an index, and every index is below the counter.
IndicesDistinct ==
    /\ \A x, y \in HandedOut(gs) : x[4] = y[4] => x = y
    /\ \A x \in HandedOut(gs) : x[4] < gs.latest_hypothetical_reg_idx

\* A step hands out only indices the counter passed in that step, so an
\* index the counter has passed is never handed out later.
HandedOutFromCounter ==
    [][\A x \in HandedOut(gs') \ HandedOut(gs) :
            /\ x[4] >= gs.latest_hypothetical_reg_idx
            /\ x[4] < gs'.latest_hypothetical_reg_idx]_vars

\* The attributes of type ty before the first one of an unhandled kind.
RECURSIVE HandledPrefix(_, _)
HandledPrefix(ty, i) ==
    IF i > num_attributes(ty)
            \/ flattened_type_to_register_kind(STable(ty).flattened_stables[i]) = "neg"
    THEN 0
    ELSE 1 + HandledPrefix(ty, i + 1)

\* A try_track_allocation that fails keeps the indices it took: the counter
\* has passed them and no slot holds them.
FailedTrackingSkips ==
    [][(/\ phase = "analyze" /\ phase' = "analyze" /\ pos' = pos
        /\ Len(prog'[CurBB]) = Len(prog[CurBB]) + 1
        /\ Last(prog'[CurBB]).op = "sp_fastcreate"
        /\ Len(gs'.tracked_allocations) = Len(gs.tracked_allocations)
        /\ STable(SpeshSlots[Last(prog'[CurBB]).operands[3].orig]).repr_id = "P6opaque") =>
        /\ gs'.latest_hypothetical_reg_idx = gs.latest_hypothetical_reg_idx
                + HandledPrefix(SpeshSlots[Last(prog'[CurBB]).operands[3].orig], 1)
        /\ HandedOut(gs') = HandedOut(gs)]_vars

\* C38: the hypothetical register indices come from a counter of the graph
\* state that never decreases; no two slots that were handed an index
\* (attribute slots of tracked allocations, decomposition operands loaded
\* out of their box) share one, and the indices a failing
\* try_track_allocation took are skipped and never handed out again.  The
\* counter stays far below 2^16 on the graphs considered.
C38_HypotheticalIndices ==
    /\ CounterNeverDecreases
    /\ []IndicesDistinct
    /\ [](gs.latest_hypothetical_reg_idx < 65536 - 1)
    /\ HandedOutFromCounter
    /\ FailedTrackingSkips

\* try_track_allocation failed after taking an index, and a later
\* allocation was tracked: its attributes hold indices above the one
\* skipped, which no slot holds.
C38_Witness ==
    /\ Done
    /\ \E k \in 0..(gs.latest_hypothetical_reg_idx - 1) :
        /\ \A x \in HandedOut(gs) : x[4] # k
        /\ \E x \in HandedOut(gs) : x[4] > k /\ x[1] = "attr"
    /\ Cardinality(HandedOut(gs)) >= 2
----------------------------------------------------------------------------
(* The bytecode unpacker: MVM_bytecode_unpack *)

HEADER_SIZE == 72
MIN_BYTECODE_VERSION == 1
MAX_BYTECODE_VERSION == 1
FRAME_HEADER_SIZE == 4 * 4 + 2 * 2

MVM_CALLSITE_ARG_OBJ == 1
MVM_CALLSITE_ARG_INT == 2
MVM_CALLSITE_ARG_NAMED == 32
MVM_CALLSITE_ARG_FLAT == 64

\* The number of strings, frames and callsites a stream announces, and the
\* number of arguments of a callsite.
MaxStrings == 1
MaxFrames == 2
MaxCallsites == 2
MaxArgs == 2

\* MVMuint32 values are kept as their 16-bit halves (ToUint32).
\* x + y in MVMuint32 arithmetic.
Add32(x, y) ==
    LET lo == x.lo + y.lo
    IN [hi |-> (x.hi + y.hi + (lo \div 65536)) % 65536, lo |-> lo % 65536]

Gt32(x, y) == x.hi > y.hi \/ (x.hi = y.hi /\ x.lo > y.lo)

Ge32(x, y) == x = y \/ Gt32(x, y)

\* a & b on bytes.
RECURSIVE BitAnd(_, _)
BitAnd(a, b) ==
    IF a = 0 \/ b = 0 THEN 0
    ELSE (a % 2) * (b % 2) + 2 * BitAnd(a \div 2, b \div 2)

\* The reader after MVM_exception_throw_adhoc left the unpacker.
Thrown(r, msg) == [r EXCEPT !.stage = "thrown", !.thrown = msg]

\* ensure_can_read: the position and the stream's end are pointers; the
\* position is kept as its distance at from data_start and size stays small,
\* so the pointer sum does not wrap.
can_read(c, at, size) == ~(at + size > c.data_size.lo + 65536 * c.data_size.hi)

NoRs ==
    [version |-> 0, string_seg |-> 0, expected_strings |-> 0,
     frame_seg |-> 0, expected_frames |-> 0,
     callsite_seg |-> 0, expected_callsites |-> 0,
     bytecode_seg |-> ToUint32(0), bytecode_size |-> ToUint32(0)]

\* dissect_bytecode: the message thrown ("" if none) and the reader state.
\* The header fields are what read_int32 finds at their offsets; offset and
\* size of the bytecode segment are MVMuint32.
dissect_bytecode(c) ==
    IF Gt32(ToUint32(HEADER_SIZE), c.data_size)
    THEN [thrown |-> "Bytecode stream shorter than header", rs |-> NoRs]
    ELSE IF ~c.magic
    THEN [thrown |-> "Bytecode stream corrupt (missing magic string)", rs |-> NoRs]
    ELSE IF c.version < MIN_BYTECODE_VERSION
    THEN [thrown |-> "Bytecode stream version too low", rs |-> NoRs]
    ELSE IF c.version > MAX_BYTECODE_VERSION
    THEN [thrown |-> "Bytecode stream version too high", rs |-> NoRs]
    ELSE IF Gt32(ToUint32(c.frames_offset), c.data_size)
    THEN [thrown |-> "Frames segment starts after end of stream", rs |-> NoRs]
    ELSE IF Gt32(ToUint32(c.callsites_offset), c.data_size)
    THEN [thrown |-> "Callsites segment starts after end of stream", rs |-> NoRs]
    ELSE IF Gt32(ToUint32(c.strings_offset), c.data_size)
    THEN [thrown |-> "Strings segment starts after end of stream", rs |-> NoRs]
    ELSE IF \/ Gt32(c.bytecode_offset, c.data_size)
            \/ Gt32(Add32(c.bytecode_offset, c.bytecode_size), c.data_size)
    THEN [thrown |-> "Bytecode segment overflows end of stream", rs |-> NoRs]
    ELSE [thrown |-> "",
          rs |-> [version |-> c.version,
                  string_seg |-> c.strings_offset,
                  expected_strings |-> c.expected_strings,
                  frame_seg |-> c.frames_offset,
                  expected_frames |-> c.expected_frames,
                  callsite_seg |-> c.callsites_offset,
                  expected_callsites |-> c.expected_callsites,
                  bytecode_seg |-> c.bytecode_offset,
                  bytecode_size |-> c.bytecode_size]]

\* One round of deserialize_strings' loop on a string of ss bytes.
deserialize_string(c, r, ss) ==
    IF ~can_read(c, r.pos, 4) THEN Thrown(r, "Read past end of bytecode stream")
    ELSE IF ~can_read(c, r.pos + 4, ss) THEN Thrown(r, "Read past end of bytecode stream")
    ELSE [r EXCEPT !.pos = r.pos + 4 + ss + (IF ss % 4 # 0 THEN 4 - (ss % 4) ELSE 0),
                   !.i = @ + 1]

\* get_heap_string fails on this index.
bad_heap_index(r, heap_index) == heap_index >= r.num_strings

\* One round of deserialize_frames' loop on the frame record f found at pos.
deserialize_frame(c, r, f) ==
    IF ~can_read(c, r.pos, FRAME_HEADER_SIZE)
    THEN Thrown(r, "Read past end of bytecode stream")
    ELSE IF Ge32(f.bytecode_pos, r.rs.bytecode_size)
    THEN Thrown(r, "Frame has invalid bytecode start point")
    ELSE IF Gt32(Add32(f.bytecode_pos, f.bytecode_size), r.rs.bytecode_size)
    THEN Thrown(r, "Frame bytecode overflows bytecode stream")
    ELSE IF bad_heap_index(r, f.cuuid) \/ bad_heap_index(r, f.name)
    THEN Thrown(r, "String heap index beyond end of string heap")
    ELSE IF f.num_locals # 0 /\ ~can_read(c, r.pos + FRAME_HEADER_SIZE, 2 * f.num_locals)
    THEN Thrown(r, "Read past end of bytecode stream")
    ELSE [r EXCEPT !.pos = r.pos + FRAME_HEADER_SIZE + 2 * f.num_locals,
                   !.i = @ + 1,
                   !.frames = Append(@, [bytecode_pos |-> f.bytecode_pos,
                                         bytecode_size |-> f.bytecode_size,
                                         num_locals |-> f.num_locals])]

\* deserialize_callsites' loop over the flags of one callsite, from flag j
\* on: the message thrown ("" if none) and the two counters after it.
RECURSIVE validate_args(_, _, _, _)
validate_args(arg_flags, j, positionals, arg_validate) ==
    IF j > Len(arg_flags)
    THEN [thrown |-> "", positionals |-> positionals, arg_validate |-> arg_validate]
    ELSE IF BitAnd(arg_flags[j], MVM_CALLSITE_ARG_FLAT + MVM_CALLSITE_ARG_NAMED) # 0
    THEN [thrown |-> "Arg cannot be both flat and named",
          positionals |-> positionals, arg_validate |-> arg_validate]
    ELSE IF BitAnd(arg_flags[j], MVM_CALLSITE_ARG_NAMED) # 0
    THEN IF arg_validate = 2
         THEN [thrown |-> "Named arg must not appear after a flat one",
               positionals |-> positionals, arg_validate |-> arg_validate]
         ELSE validate_args(arg_flags, j + 1, positionals, 1)
    ELSE IF BitAnd(arg_flags[j], MVM_CALLSITE_ARG_FLAT) # 0
    THEN [thrown |-> "Flattening NYI", positionals |-> positionals, arg_validate |-> 2]
    ELSE IF arg_validate # 0
    THEN [thrown |-> "All positional args must appear first",
          positionals |-> positionals, arg_validate |-> arg_validate]
    ELSE validate_args(arg_flags, j + 1, positionals + 1, arg_validate)

\* One round of deserialize_callsites' loop on the callsite found at pos,
\* whose flags are arg_flags.
deserialize_callsite(c, r, arg_flags) ==
    LET elems == Len(arg_flags)
        v == validate_args(arg_flags, 1, r.positionals, r.arg_validate)
    IN IF ~can_read(c, r.pos, 2) THEN Thrown(r, "Read past end of bytecode stream")
       ELSE IF ~can_read(c, r.pos + 2, elems)
       THEN Thrown(r, "Read past end of bytecode stream")
       ELSE IF v.thrown # "" THEN Thrown(r, v.thrown)
       ELSE [r EXCEPT !.pos = r.pos + 2 + elems + (elems % 2),
                      !.i = @ + 1,
                      !.positionals = v.positionals,
                      !.arg_validate = v.arg_validate,
                      !.callsites = Append(@, [arg_count |-> elems,
                                               arg_flags |-> arg_flags,
                                               num_pos |-> v.positionals]),
                      !.max_callsite_size = IF elems > @ THEN elems ELSE @]

----------------------------------------------------------------------------
(* The streams the unpacker is run on *)

\* A well-formed header of a stream of 128 bytes whose three tables start
\* right after the header.
BaseUnit ==
    [data_size |-> ToUint32(128), magic |-> TRUE, version |-> 1,
     frames_offset |-> 72, expected_frames |-> 1,
     callsites_offset |-> 72, expected_callsites |-> 1,
     strings_offset |-> 72, expected_strings |-> 1,
     bytecode_offset |-> ToUint32(72), bytecode_size |-> ToUint32(56)]

Units ==
    {[BaseUnit EXCEPT !.expected_frames = x[1], !.expected_callsites = x[2],
                      !.bytecode_offset = x[3], !.bytecode_size = x[4]] :
        x \in (0..MaxFrames) \X (0..MaxCallsites)
                \X {ToUint32(72), ToUint32(120), ToUint32(-8)}
                \X {ToUint32(8), ToUint32(56), ToUint32(-64)}}
    \cup {[BaseUnit EXCEPT !.data_size = ToUint32(64)], [BaseUnit EXCEPT !.magic = FALSE],
          [BaseUnit EXCEPT !.version = 0], [BaseUnit EXCEPT !.version = 2],
          [BaseUnit EXCEPT !.frames_offset = 200],
          [BaseUnit EXCEPT !.callsites_offset = 200],
          [BaseUnit EXCEPT !.strings_offset = 200]}
    \cup {[BaseUnit EXCEPT !.expected_strings = n] : n \in 0..MaxStrings}

StringSizes == {0, 3, 100}

FrameRecords ==
    {[bytecode_pos |-> x[1], bytecode_size |-> x[2], num_locals |-> x[3][1],
      cuuid |-> x[3][2], name |-> 0] :
        x \in {ToUint32(0), ToUint32(8), ToUint32(-8)}
                \X {ToUint32(8), ToUint32(56), ToUint32(-4)}
                \X {<<0, 0>>, <<1, 0>>, <<0, 1>>}}

ArgFlags ==
    {MVM_CALLSITE_ARG_OBJ, MVM_CALLSITE_ARG_INT,
     MVM_CALLSITE_ARG_NAMED + MVM_CALLSITE_ARG_OBJ,
     MVM_CALLSITE_ARG_FLAT + MVM_CALLSITE_ARG_OBJ,
     MVM_CALLSITE_ARG_NAMED + MVM_CALLSITE_ARG_FLAT + MVM_CALLSITE_ARG_OBJ}

CallsiteRecords == UNION {[1..n -> ArgFlags] : n \in 0..MaxArgs}

----------------------------------------------------------------------------
(* MVM_bytecode_unpack, step by step *)

UnpackInit ==
    /\ family = "line"
    /\ prog = [b \in 1..FamilyShape("line").nb |-> <<>>]
    /\ env = InitialEnv
    /\ gs = InitialGs(FamilyShape("line"))
    /\ g = InitialG(FamilyShape("line"))
    /\ phase = "done"
    /\ pos = 1
    /\ tix = 1
    /\ ret = -1
    /\ last = 0
    /\ cu \in Units
    /\ rd = [stage |-> "dissect", thrown |-> "", rs |-> NoRs, pos |-> 0, i |-> 0,
             num_strings |-> 0, frames |-> <<>>, callsites |-> <<>>,
             positionals |-> 0, arg_validate |-> 0, max_callsite_size |-> 0]

PassUnchanged == UNCHANGED <<family, prog, env, gs, g, phase, pos, tix, ret, last>>

\* dissect_bytecode; deserialize_strings starts at the string segment.
Dissect ==
    /\ rd.stage = "dissect"
    /\ LET d == dissect_bytecode(cu)
       IN rd' = IF d.thrown # "" THEN Thrown(rd, d.thrown)
                ELSE [rd EXCEPT !.stage = "strings", !.rs = d.rs,
                                !.pos = d.rs.string_seg, !.i = 0]
    /\ UNCHANGED cu /\ PassUnchanged

DeserializeString ==
    /\ rd.stage = "strings" /\ rd.i < rd.rs.expected_strings
    /\ \E ss \in StringSizes : rd' = deserialize_string(cu, rd, ss)
    /\ UNCHANGED cu /\ PassUnchanged

\* deserialize_strings returns; cu->num_strings is set and deserialize_frames
\* starts at the frame segment.
StringsDone ==
    /\ rd.stage = "strings" /\ rd.i = rd.rs.expected_strings
    /\ rd' = [rd EXCEPT !.stage = "frames", !.num_strings = rd.rs.expected_strings,
                        !.pos = rd.rs.frame_seg, !.i = 0]
    /\ UNCHANGED cu /\ PassUnchanged

DeserializeFrame ==
    /\ rd.stage = "frames" /\ rd.i < rd.rs.expected_frames
    /\ \E f \in FrameRecords : rd' = deserialize_frame(cu, rd, f)
    /\ UNCHANGED cu /\ PassUnchanged

\* deserialize_frames returns (it throws at once if no frame is expected);
\* deserialize_callsites starts at the callsite segment with its counters
\* at zero.
FramesDone ==
    /\ rd.stage = "frames" /\ rd.i = rd.rs.expected_frames
    /\ rd' = IF rd.rs.expected_frames = 0
             THEN Thrown(rd, "Bytecode file must have at least one frame")
             ELSE [rd EXCEPT !.stage = "callsites", !.pos = rd.rs.callsite_seg, !.i = 0,
                             !.positionals = 0, !.arg_validate = 0,
                             !.max_callsite_size = 0]
    /\ UNCHANGED cu /\ PassUnchanged

DeserializeCallsite ==
    /\ rd.stage = "callsites" /\ rd.i < rd.rs.expected_callsites
    /\ \E arg_flags \in CallsiteRecords : rd' = deserialize_callsite(cu, rd, arg_flags)
    /\ UNCHANGED cu /\ PassUnchanged

\* deserialize_callsites returns and the reader state is cleaned up.
CallsitesDone ==
    /\ rd.stage = "callsites" /\ rd.i = rd.rs.expected_callsites
    /\ rd' = [rd EXCEPT !.stage = "done"]
    /\ UNCHANGED cu /\ PassUnchanged

UnpackNext ==
    \/ Dissect \/ DeserializeString \/ StringsDone \/ DeserializeFrame
    \/ FramesDone \/ DeserializeCallsite \/ CallsitesDone

UnpackSpec == UnpackInit /\ [][UnpackNext]_vars
----------------------------------------------------------------------------
(* The ranges the unpacker accepts *)

\* x + y > z where the sum is the number, not its low 32 bits.
SumExceeds(x, y, z) ==
    LET lo == x.lo + y.lo
        hi == x.hi + y.hi + (lo \div 65536)
    IN hi >= 65536 \/ Gt32(Add32(x, y), z)

\* dissect_bytecode accepted the stream.
Dissected == rd.stage \in {"strings", "frames", "callsites", "done"} \/ rd.rs # NoRs

\* C39: the bytecode segment of an accepted stream lies inside the data,
\* offset + size <= data_size, and the bytecode of every accepted frame lies
\* inside the bytecode segment, bytecode_pos + bytecode_size <= the segment's
\* size, whatever 32-bit values the four fields hold; a stream or frame thrown
\* out for its range has a range that does not.
C39_RangesInsideData ==
    /\ Dissected => ~SumExceeds(rd.rs.bytecode_seg, rd.rs.bytecode_size, cu.data_size)
    /\ \A k \in 1..Len(rd.frames) :
        ~SumExceeds(rd.frames[k].bytecode_pos, rd.frames[k].bytecode_size,
                    rd.rs.bytecode_size)
    /\ rd.thrown = "Bytecode segment overflows end of stream" =>
            SumExceeds(cu.bytecode_offset, cu.bytecode_size, cu.data_size)

\* A stream was unpacked to the end whose bytecode segment reaches beyond the
\* data and one of whose frames reaches beyond the segment.
C39_Witness ==
    /\ rd.stage = "done"
    /\ SumExceeds(rd.rs.bytecode_seg, rd.rs.bytecode_size, cu.data_size)
    /\ \E k \in 1..Len(rd.frames) :
        SumExceeds(rd.frames[k].bytecode_pos, rd.frames[k].bytecode_size,
                   rd.rs.bytecode_size)

----------------------------------------------------------------------------
(* The callsites the unpacker accepts *)

\* The flags of a callsite that are neither named nor flat.
Positionals(arg_flags) ==
    {j \in 1..Len(arg_flags) :
        BitAnd(arg_flags[j], MVM_CALLSITE_ARG_NAMED + MVM_CALLSITE_ARG_FLAT) = 0}

\* C40: the num_pos of every accepted callsite is the number of positional
\* flags of that callsite, and whether the next callsite passes the check of
\* its flags is what it would be were it the first callsite of the stream.
C40_CallsitesAlone ==
    /\ \A k \in 1..Len(rd.callsites) :
        rd.callsites[k].num_pos = Cardinality(Positionals(rd.callsites[k].arg_flags))
    /\ rd.stage = "callsites" =>
        \A arg_flags \in CallsiteRecords :
            validate_args(arg_flags, 1, rd.positionals, rd.arg_validate).thrown
                = validate_args(arg_flags, 1, 0, 0).thrown

\* Two callsites with positional arguments were accepted, and the second
\* one's num_pos counts the arguments of the first as well.
C40_Witness ==
    /\ rd.stage = "done"
    /\ Len(rd.callsites) = 2
    /\ rd.callsites[1].arg_count > 0 /\ rd.callsites[2].arg_count > 0
    /\ rd.callsites[2].num_pos = rd.callsites[1].arg_count + rd.callsites[2].arg_count

====
